---- MODULE Spec2Model ----
(***************************************************************************)
(* Model of the shopping-list data layer of flask-shopping-list-manager:   *)
(* the shopping_lists and shopping_list_items tables, the API v1 handlers  *)
(* that read and write them (app/api/v1/lists.py, app/api/v1/items.py),    *)
(* the authorization decorators (app/api/decorators.py) and the request    *)
(* schemas (app/api/schemas.py).                                           *)
(*                                                                         *)
(* Every handler is one atomic action in Spec (one request handled to      *)
(* completion, ending in db.session.commit()).  SpecRace splits            *)
(* update_list into the steps of its SQLAlchemy session (load, validate    *)
(* and check, flush and commit) for two requests handled at the same time. *)
(*                                                                         *)
(* Columns that no property below reads (created_at, updated_at, email,    *)
(* password_hash) are not part of the state.                               *)
(***************************************************************************)
EXTENDS Integers, FiniteSets, Sequences, TLC

\* ------------------------------------------------------------------------
\* Bounds of the model
\* ------------------------------------------------------------------------
MaxLists == 2
MaxItems == 2
MaxVersion == 3
MaxGuid == 3
MaxTime == 2
MaxOrder == 1
\* items per database in Spec, which has every endpoint
MaxItemsSpec == 1
\* lists per database in every specification but SpecClear
MaxListsSpec == 1
\* rows of the table users
MaxUsers == 3
\* JWTs in circulation
MaxTokens == 3

\* ------------------------------------------------------------------------
\* Program constants
\* ------------------------------------------------------------------------
\* validate.Length(min=1, max=200) of title and name
MinTextLen == 1
MaxTextLen == 200
\* validate.Length(max=50) of quantity
MaxQuantityLen == 50
\* validate.Range(min=0) of order_index
MinOrderIndex == 0
\* server_default='1' of the version columns
InitialVersion == 1

\* deleted_at IS NULL
NULL == 0

\* ------------------------------------------------------------------------
\* Principals.  alice and bob are regular users, admin has is_admin = True.
\* ------------------------------------------------------------------------
Users == {"alice", "bob", "admin"}

is_admin(u) == u = "admin"

UserIds == 1..MaxUsers

\* ------------------------------------------------------------------------
\* Optional values: <<>> is "key absent" (Python: key not in dict / None),
\* <<x>> is "key present with value x".
\* ------------------------------------------------------------------------
Absent == <<>>

Some(x) == <<x>>

Opt(S) == {Absent} \cup {Some(x) : x \in S}

Has(data, k) == data[k] # Absent

Val(data, k) == data[k][1]

\* ------------------------------------------------------------------------
\* Input domains of the requests
\* ------------------------------------------------------------------------
ListIds == 1..MaxLists

\* list ids in the path of a request where the database holds MaxListsSpec
\* lists
SpecListIds == 1..MaxListsSpec

ItemIds == 1..MaxItems

\* "" is rejected by Length(min=1)
TitleInputs == {"", "milk", "eggs"}

NameInputs == {"", "tea", "rice"}

QuantityInputs == {"2"}

\* versions a client may submit: negative, zero, and every version a row can have
VersionInputs == (0 - 1)..MaxVersion

\* -1 is rejected by Range(min=0)
OrderInputs == (0 - 1)..MaxOrder

\* users who create lists (bob never owns one: he is the foreign user)
Creators == {"alice", "admin"}

\* JSON bodies of PUT /lists/<id>: at most one of title and is_shared, and
\* an optional version
UpdateListBodies ==
    {d \in [title : Opt(TitleInputs), is_shared : Opt(BOOLEAN), version : Opt(VersionInputs)] :
        d.title = Absent \/ d.is_shared = Absent}

\* JSON bodies of POST /lists/<id>/share
ShareBodies == [is_shared : Opt(BOOLEAN)]

\* JSON bodies of POST /lists/<id>/items
CreateItemBodies == [name : Opt(NameInputs), quantity : Opt(QuantityInputs)]

\* JSON bodies of PUT /items/<id>: at most one of name, quantity and
\* is_checked, and an optional version
UpdateItemBodies ==
    {d \in [name : Opt(NameInputs), quantity : Opt(QuantityInputs),
             is_checked : Opt(BOOLEAN), version : Opt(VersionInputs)] :
        Cardinality({k \in {"name", "quantity", "is_checked"} : d[k] # Absent}) <= 1}

\* JSON bodies of PUT /items/<id>/reorder
ReorderBodies == [order_index : Opt(OrderInputs)]

\* ------------------------------------------------------------------------
\* Rows
\* ------------------------------------------------------------------------
NoList ==
    [exists |-> FALSE, user_id |-> "", title |-> "", is_shared |-> FALSE,
     guid |-> 0, version |-> 0, deleted_at |-> NULL]

NoItem ==
    [exists |-> FALSE, shopping_list_id |-> 0, name |-> "", quantity |-> "",
     is_checked |-> FALSE, order_index |-> 0, version |-> 0, deleted_at |-> NULL]

NoUser == [exists |-> FALSE, username |-> "", is_admin |-> FALSE]

NoResp ==
    [op |-> "none", actor |-> "", id |-> 0, version |-> Absent, wellformed |-> TRUE,
     outcome |-> "none", current_version |-> 0, expected_version |-> 0, count |-> 0,
     before |-> NoList, ibefore |-> NoItem]

Clients == {"c1", "c2"}

NoBody == [title |-> Absent, is_shared |-> Absent, version |-> Absent]

IdleSession ==
    [pc |-> "idle", actor |-> "", list_id |-> 0, data |-> NoBody,
     loaded |-> NoList, outcome |-> "none", stored |-> 0]

VARIABLES
    lists,      \* table shopping_lists: ListIds -> row
    items,      \* table shopping_list_items: ItemIds -> row
    nextGuid,   \* number of GUIDs uuid.uuid4() has handed out, plus one
    now,        \* datetime.now(timezone.utc)
    resp,       \* the request handled last and its response
    sess,       \* SpecRace: the SQLAlchemy session of each in-flight update_list
    users,      \* table users: UserIds -> row
    revoked,    \* table revoked_tokens: the rows, each a jti with its expires_at
    admin_created   \* the attribute app._admin_created is set

vars == <<lists, items, nextGuid, now, resp, sess, users, revoked, admin_created>>

\* ------------------------------------------------------------------------
\* Lifecycle queries
\* ------------------------------------------------------------------------
\* ShoppingList.active() / ShoppingList.deleted()
ListActive(l) == lists[l].exists /\ lists[l].deleted_at = NULL

\* a trash that holds a row only once the clock has moved past its deleted_at
ListDeleted_before_now(l) ==
    lists[l].exists /\ lists[l].deleted_at # NULL /\ lists[l].deleted_at < now

ListDeleted(l) == lists[l].exists /\ lists[l].deleted_at # NULL

\* ShoppingListItem.active() / ShoppingListItem.deleted()
ItemActive(i) == items[i].exists /\ items[i].deleted_at = NULL

ItemDeleted(i) == items[i].exists /\ items[i].deleted_at # NULL

\* shopping_list.items: every item row of the list, trashed or not
ItemsOf(l) == {i \in ItemIds : items[i].exists /\ items[i].shopping_list_id = l}

SetMax(S) == CHOOSE x \in S : \A y \in S : y <= x

\* INTEGER PRIMARY KEY of SQLite: the largest id in the table plus one
NextListId ==
    IF \E l \in ListIds : lists[l].exists
    THEN SetMax({l \in ListIds : lists[l].exists}) + 1
    ELSE 1

NextItemId ==
    IF \E i \in ItemIds : items[i].exists
    THEN SetMax({i \in ItemIds : items[i].exists}) + 1
    ELSE 1

\* ------------------------------------------------------------------------
\* Responses
\* ------------------------------------------------------------------------
\* what the properties read of a request and its response: the endpoint, the
\* user, the id in the path, the version key of the body, whether the rest
\* of the body passes the schema, the outcome, the Conflict details, the
\* deleted_count, and the row as it was when the request arrived
Reply(op, actor, id, outcome) ==
    [NoResp EXCEPT !.op = op, !.actor = actor, !.id = id, !.outcome = outcome]

ListReply(op, actor, id, data, outcome) ==
    [Reply(op, actor, id, outcome) EXCEPT
        !.version = data.version,
        !.before = IF id \in ListIds THEN lists[id] ELSE NoList]

ItemReply(op, actor, id, version, outcome) ==
    [Reply(op, actor, id, outcome) EXCEPT
        !.version = version,
        !.ibefore = IF id \in ItemIds THEN items[id] ELSE NoItem]

\* ------------------------------------------------------------------------
\* Versioned entity
\* ------------------------------------------------------------------------
\* check_version(expected): no-op when expected is None, Conflict with both
\* versions when expected differs from the stored version
check_version(row, expected) ==
    IF expected = Absent
    THEN [conflict |-> FALSE, current_version |-> 0, expected_version |-> 0]
    ELSE IF expected[1] # row.version
         THEN [conflict |-> TRUE, current_version |-> row.version,
               expected_version |-> expected[1]]
         ELSE [conflict |-> FALSE, current_version |-> 0, expected_version |-> 0]

\* increment_version(): version = version + 1
increment_version(row) == [row EXCEPT !.version = row.version + 1]

\* ------------------------------------------------------------------------
\* Schemas (marshmallow: a key that is not a declared field is rejected)
\* ------------------------------------------------------------------------
ValidText(s) == Len(s) >= MinTextLen /\ Len(s) <= MaxTextLen

\* the schema with a field version = fields.Int() that has no validator
ShoppingListUpdateSchema_int_version(data) ==
    Has(data, "title") => ValidText(Val(data, "title"))

\* ShoppingListUpdateSchema().load(data) succeeds
ShoppingListUpdateSchema(data) ==
    /\ \A k \in DOMAIN data : Has(data, k) => k \in {"title", "is_shared"}
    /\ Has(data, "title") => ValidText(Val(data, "title"))

\* ------------------------------------------------------------------------
\* Decorators
\* ------------------------------------------------------------------------
\* list_owner_or_admin_required: looks the list up among ALL rows
list_owner_or_admin_required(actor, list_id) ==
    IF ~(list_id \in ListIds /\ lists[list_id].exists) THEN "NotFound"
    ELSE IF ~(is_admin(actor) \/ lists[list_id].user_id = actor) THEN "Forbidden"
    ELSE "OK"

\* ------------------------------------------------------------------------
\* Lists
\* ------------------------------------------------------------------------
\* the row with a version column whose default is 0
new_list_version_0(actor, title, is_shared, guid) ==
    [exists |-> TRUE, user_id |-> actor, title |-> title, is_shared |-> is_shared,
     guid |-> guid, version |-> 0, deleted_at |-> NULL]

\* ShoppingList(title=..., user_id=..., is_shared=...) with the column
\* defaults: guid from uuid4, version 1, deleted_at NULL
new_list(actor, title, is_shared, guid) ==
    [exists |-> TRUE, user_id |-> actor, title |-> title, is_shared |-> is_shared,
     guid |-> guid, version |-> InitialVersion, deleted_at |-> NULL]

\* POST /lists
create_list(actor, title, is_shared) ==
    /\ IF ValidText(title)
       THEN /\ NextListId \in ListIds
            /\ nextGuid <= MaxGuid
            /\ lists' = [lists EXCEPT ![NextListId] = new_list(actor, title, is_shared, nextGuid)]
            /\ nextGuid' = nextGuid + 1
            /\ resp' = Reply("create_list", actor, NextListId, "OK")
       ELSE /\ resp' = Reply("create_list", actor, 0, "ValidationError")
            /\ UNCHANGED <<lists, nextGuid>>
    /\ UNCHANGED <<items, now, sess, users, revoked, admin_created>>

\* "Update fields" without the call of increment_version
update_list_fields_no_increment(row, data, guid) ==
    LET r1 == IF Has(data, "title") THEN [row EXCEPT !.title = Val(data, "title")] ELSE row
    IN  IF Has(data, "is_shared")
        THEN [r1 EXCEPT
                !.guid = IF r1.is_shared # Val(data, "is_shared") THEN guid ELSE r1.guid,
                !.is_shared = Val(data, "is_shared")]
        ELSE r1

\* "Update fields" with the rule of toggle_share_list: a new GUID only when
\* a shared list becomes private
update_list_fields_rotate_on_unshare(row, data, guid) ==
    LET r1 == IF Has(data, "title") THEN [row EXCEPT !.title = Val(data, "title")] ELSE row
        r2 == IF Has(data, "is_shared")
              THEN [r1 EXCEPT
                      !.guid = IF r1.is_shared /\ ~Val(data, "is_shared") THEN guid ELSE r1.guid,
                      !.is_shared = Val(data, "is_shared")]
              ELSE r1
    IN  increment_version(r2)

\* update_list, "Update fields" to increment_version: the row as the
\* session holds it before the commit; guid is the value uuid4 would return
update_list_fields(row, data, guid) ==
    LET r1 == IF Has(data, "title") THEN [row EXCEPT !.title = Val(data, "title")] ELSE row
        r2 == IF Has(data, "is_shared")
              THEN [r1 EXCEPT
                      !.guid = IF r1.is_shared # Val(data, "is_shared") THEN guid ELSE r1.guid,
                      !.is_shared = Val(data, "is_shared")]
              ELSE r1
    IN  increment_version(r2)

\* the version check made with validated_data.get('version') on every
\* request, None compared with the stored version like any other value
update_list_check_always(row, data) ==
    IF ~(row.exists /\ row.deleted_at = NULL) THEN "NotFound"
    ELSE IF ~ShoppingListUpdateSchema(data) THEN "ValidationError"
    ELSE IF ~Has(data, "version") \/ check_version(row, data.version).conflict THEN "Conflict"
    ELSE "OK"

\* update_list, from the query of the active list to the version check:
\* the outcome that ends the request early, or "OK" to go on
update_list_check(row, data) ==
    IF ~(row.exists /\ row.deleted_at = NULL) THEN "NotFound"
    ELSE IF ~ShoppingListUpdateSchema(data) THEN "ValidationError"
    ELSE IF Has(data, "version") /\ check_version(row, data.version).conflict THEN "Conflict"
    ELSE "OK"

\* PUT /lists/<list_id>
update_list(actor, list_id, data) ==
    LET auth == list_owner_or_admin_required(actor, list_id)
        out == IF auth # "OK" THEN auth ELSE update_list_check(lists[list_id], data)
        r == [ListReply("update_list", actor, list_id, data, out) EXCEPT
                 !.wellformed = ShoppingListUpdateSchema([data EXCEPT !.version = Absent])]
    IN  /\ IF out = "OK"
           THEN /\ lists[list_id].version < MaxVersion
                /\ nextGuid <= MaxGuid
                /\ lists' = [lists EXCEPT ![list_id] = update_list_fields(@, data, nextGuid)]
                /\ nextGuid' = IF lists'[list_id].guid # lists[list_id].guid
                               THEN nextGuid + 1 ELSE nextGuid
                /\ resp' = r
           ELSE /\ resp' = IF out = "Conflict"
                           THEN [r EXCEPT
                                   !.current_version =
                                       check_version(lists[list_id], data.version).current_version,
                                   !.expected_version =
                                       check_version(lists[list_id], data.version).expected_version]
                           ELSE r
                /\ UNCHANGED <<lists, nextGuid>>
        /\ UNCHANGED <<items, now, sess, users, revoked, admin_created>>

\* the fields of ShoppingListForm as the browser posts them; an unchecked
\* box comes out as is_shared = False
EditListForms == [title : TitleInputs, is_shared : BOOLEAN]

\* form.validate_on_submit(): DataRequired and Length(min=1, max=200)
ShoppingListForm(form) == ValidText(form.title)

\* edit_list from "old_shared = ..." to the commit: the row as the session
\* holds it; guid is the value uuid4 would return
edit_list_fields(row, form, guid) ==
    [row EXCEPT !.title = form.title,
                !.guid = IF row.is_shared # form.is_shared THEN guid ELSE row.guid,
                !.is_shared = form.is_shared]

\* POST /lists/<list_id>/edit of the server-rendered pages
edit_list(actor, list_id, form) ==
    LET out == IF ~(list_id \in ListIds /\ ListActive(list_id)) THEN "NotFound"
               ELSE IF lists[list_id].user_id # actor /\ ~is_admin(actor) THEN "Forbidden"
               ELSE IF ~ShoppingListForm(form) THEN "ValidationError"
               ELSE "OK"
    IN  /\ resp' = ListReply("edit_list", actor, list_id, NoBody, out)
        /\ IF out = "OK"
           THEN /\ nextGuid <= MaxGuid
                /\ lists' = [lists EXCEPT ![list_id] = edit_list_fields(@, form, nextGuid)]
                /\ nextGuid' = IF lists'[list_id].guid # lists[list_id].guid
                               THEN nextGuid + 1 ELSE nextGuid
           ELSE UNCHANGED <<lists, nextGuid>>
        /\ UNCHANGED <<items, now, sess, users, revoked, admin_created>>

\* ShareListSchema().load(data) succeeds
ShareListSchema(data) == Has(data, "is_shared")

\* toggle_share_list that draws a new GUID whenever is_shared changes
toggle_share_list_rotate_on_change(actor, list_id, data) ==
    LET auth == list_owner_or_admin_required(actor, list_id)
        out == IF auth # "OK" THEN auth
               ELSE IF ~ListActive(list_id) THEN "NotFound"
               ELSE IF ~ShareListSchema(data) THEN "ValidationError"
               ELSE "OK"
        rotate == out = "OK" /\ lists[list_id].is_shared # Val(data, "is_shared")
    IN  /\ resp' = ListReply("toggle_share_list", actor, list_id, NoBody, out)
        /\ IF out = "OK"
           THEN /\ rotate => nextGuid <= MaxGuid
                /\ lists' = [lists EXCEPT ![list_id] =
                       [@ EXCEPT !.guid = IF rotate THEN nextGuid ELSE @,
                                 !.is_shared = Val(data, "is_shared")]]
                /\ nextGuid' = IF rotate THEN nextGuid + 1 ELSE nextGuid
           ELSE UNCHANGED <<lists, nextGuid>>
        /\ UNCHANGED <<items, now, sess, users, revoked, admin_created>>

\* POST /lists/<list_id>/share
toggle_share_list(actor, list_id, data) ==
    LET auth == list_owner_or_admin_required(actor, list_id)
        out == IF auth # "OK" THEN auth
               ELSE IF ~ListActive(list_id) THEN "NotFound"
               ELSE IF ~ShareListSchema(data) THEN "ValidationError"
               ELSE "OK"
        rotate == out = "OK" /\ lists[list_id].is_shared /\ ~Val(data, "is_shared")
    IN  /\ resp' = ListReply("toggle_share_list", actor, list_id, NoBody, out)
        /\ IF out = "OK"
           THEN /\ rotate => nextGuid <= MaxGuid
                /\ lists' = [lists EXCEPT ![list_id] =
                       [@ EXCEPT !.guid = IF rotate THEN nextGuid ELSE @,
                                 !.is_shared = Val(data, "is_shared")]]
                /\ nextGuid' = IF rotate THEN nextGuid + 1 ELSE nextGuid
           ELSE UNCHANGED <<lists, nextGuid>>
        /\ UNCHANGED <<items, now, sess, users, revoked, admin_created>>

\* ShoppingListItem.soft_delete() / ShoppingListItem.restore()
item_soft_delete(row) == [row EXCEPT !.deleted_at = now]

item_restore(row) == [row EXCEPT !.deleted_at = NULL]

\* a soft_delete() that counts as a modification of the row
list_soft_delete_bump_version(row) ==
    [row EXCEPT !.deleted_at = now, !.version = (row.version + 1) % (MaxVersion + 1)]

\* ShoppingList.soft_delete(): the list row, and the cascade over self.items
list_soft_delete(row) == [row EXCEPT !.deleted_at = now]

list_soft_delete_items(list_id) ==
    [i \in ItemIds |-> IF i \in ItemsOf(list_id) THEN item_soft_delete(items[i]) ELSE items[i]]

\* ShoppingList.restore(): the list row, and the cascade over self.items
list_restore(row) == [row EXCEPT !.deleted_at = NULL]

\* restore() that clears deleted_at of the list and leaves the items alone
list_restore_items_no_cascade(list_id) == items

list_restore_items(list_id) ==
    [i \in ItemIds |-> IF i \in ItemsOf(list_id) THEN item_restore(items[i]) ELSE items[i]]

\* DELETE /lists/<list_id>
delete_list(actor, list_id) ==
    LET auth == list_owner_or_admin_required(actor, list_id)
        out == IF auth # "OK" THEN auth
               ELSE IF ~ListActive(list_id) THEN "NotFound"
               ELSE "OK"
    IN  /\ resp' = ListReply("delete_list", actor, list_id, NoBody, out)
        /\ IF out = "OK"
           THEN /\ lists' = [lists EXCEPT ![list_id] = list_soft_delete(@)]
                /\ items' = list_soft_delete_items(list_id)
           ELSE UNCHANGED <<lists, items>>
        /\ UNCHANGED <<nextGuid, now, sess, users, revoked, admin_created>>

\* restore_list that takes the list the decorator has found, in the trash
\* or not
restore_list_any_row(actor, list_id) ==
    LET out == list_owner_or_admin_required(actor, list_id)
    IN  /\ resp' = ListReply("restore_list", actor, list_id, NoBody, out)
        /\ IF out = "OK"
           THEN /\ lists' = [lists EXCEPT ![list_id] = list_restore(@)]
                /\ items' = list_restore_items(list_id)
           ELSE UNCHANGED <<lists, items>>
        /\ UNCHANGED <<nextGuid, now, sess, users, revoked, admin_created>>

\* POST /lists/<list_id>/restore
restore_list(actor, list_id) ==
    LET auth == list_owner_or_admin_required(actor, list_id)
        out == IF auth # "OK" THEN auth
               ELSE IF ~ListDeleted(list_id) THEN "NotFound"
               ELSE "OK"
    IN  /\ resp' = ListReply("restore_list", actor, list_id, NoBody, out)
        /\ IF out = "OK"
           THEN /\ lists' = [lists EXCEPT ![list_id] = list_restore(@)]
                /\ items' = list_restore_items(list_id)
           ELSE UNCHANGED <<lists, items>>
        /\ UNCHANGED <<nextGuid, now, sess, users, revoked, admin_created>>

\* db.session.delete(shopping_list): the row goes, and with it (cascade
\* 'all, delete-orphan' of ShoppingList.items) every item row of the list
session_delete_list(list_id) == [lists EXCEPT ![list_id] = NoList]

\* a deletion that leaves the item rows of the list behind (no cascade)
session_delete_list_items_no_cascade(list_id) == items

\* a deletion whose cascade reaches only the items that are not in the trash
session_delete_list_items_active_only(list_id) ==
    [i \in ItemIds |-> IF i \in ItemsOf(list_id) /\ ItemActive(i) THEN NoItem ELSE items[i]]

session_delete_list_items(list_id) ==
    [i \in ItemIds |-> IF i \in ItemsOf(list_id) THEN NoItem ELSE items[i]]

\* DELETE /trash/lists/<list_id>; count is item_count, the number of item
\* rows of the list when it is deleted
permanent_delete_list(actor, list_id) ==
    LET out == IF ~is_admin(actor) THEN "Forbidden"
               ELSE IF ~(list_id \in ListIds /\ ListDeleted(list_id)) THEN "NotFound"
               ELSE "OK"
    IN  /\ resp' = IF out = "OK"
                   THEN [ListReply("permanent_delete_list", actor, list_id, NoBody, out)
                            EXCEPT !.count = Cardinality(ItemsOf(list_id))]
                   ELSE ListReply("permanent_delete_list", actor, list_id, NoBody, out)
        /\ IF out = "OK"
           THEN /\ lists' = session_delete_list(list_id)
                /\ items' = session_delete_list_items(list_id)
           ELSE UNCHANGED <<lists, items>>
        /\ UNCHANGED <<nextGuid, now, sess, users, revoked, admin_created>>

\* DELETE /admin/lists/<list_id>: admin_required, then ShoppingList.query.get
\* over ALL rows
admin_delete_list(actor, list_id) ==
    LET out == IF ~is_admin(actor) THEN "Forbidden"
               ELSE IF ~(list_id \in ListIds /\ lists[list_id].exists) THEN "NotFound"
               ELSE "OK"
    IN  /\ resp' = ListReply("admin_delete_list", actor, list_id, NoBody, out)
        /\ IF out = "OK"
           THEN /\ lists' = session_delete_list(list_id)
                /\ items' = session_delete_list_items(list_id)
           ELSE UNCHANGED <<lists, items>>
        /\ UNCHANGED <<nextGuid, now, sess, users, revoked, admin_created>>

\* GET /users/<user_id>/lists of the user's own lists: user.shopping_lists
\* is every list row of the user; count is the number of lists returned
get_user_lists(actor) ==
    /\ resp' = [Reply("get_user_lists", actor, 0, "OK") EXCEPT
                   !.count = Cardinality({l \in ListIds :
                                 lists[l].exists /\ lists[l].user_id = actor})]
    /\ UNCHANGED <<lists, items, nextGuid, now, sess, users, revoked, admin_created>>

\* GUIDs a client may ask for: every GUID uuid4 can hand out in the model
GuidInputs == 1..(MaxGuid + 1)

\* some list row, in the trash or not, carries the GUID (the guid column
\* is unique)
guid_in_use(guid) == \E l \in ListIds : lists[l].exists /\ lists[l].guid = guid

\* get_shared_list: ShoppingList.active().filter_by(guid=guid).first(),
\* then the check of is_shared
shared_lookup(guid) ==
    LET found == {l \in ListIds : ListActive(l) /\ lists[l].guid = guid}
    IN  IF found = {} THEN "NotFound"
        ELSE IF ~(\E l \in found : lists[l].is_shared) THEN "NotFound"
        ELSE "OK"

\* GET /shared/<guid>, without authentication
get_shared_list(guid) ==
    /\ resp' = Reply("get_shared_list", "", guid, shared_lookup(guid))
    /\ UNCHANGED <<lists, items, nextGuid, now, sess, users, revoked, admin_created>>

\* ------------------------------------------------------------------------
\* Items
\* ------------------------------------------------------------------------
\* a decorator that checks that the list exists and lets every user in
list_access_required_any_user(actor, list_id, allow_shared) ==
    IF ~(list_id \in ListIds /\ lists[list_id].exists) THEN "NotFound" ELSE "OK"

\* list_access_required(allow_shared): looks the list up among ALL rows
list_access_required(actor, list_id, allow_shared) ==
    IF ~(list_id \in ListIds /\ lists[list_id].exists) THEN "NotFound"
    ELSE IF ~(\/ lists[list_id].user_id = actor
              \/ is_admin(actor)
              \/ (allow_shared /\ lists[list_id].is_shared)) THEN "Forbidden"
    ELSE "OK"

\* GET /lists/<list_id>
get_list(actor, list_id) ==
    LET auth == list_access_required(actor, list_id, TRUE)
        out == IF auth # "OK" THEN auth
               ELSE IF ~ListActive(list_id) THEN "NotFound"
               ELSE "OK"
    IN  /\ resp' = ListReply("get_list", actor, list_id, NoBody, out)
        /\ UNCHANGED <<lists, items, nextGuid, now, sess, users, revoked, admin_created>>

\* an access check that lets every user into a shared list, whatever the
\* handler asks for
item_access_shared_always(actor, item_id, allow_shared) ==
    LET l == lists[items[item_id].shopping_list_id]
    IN  \/ l.user_id = actor
        \/ is_admin(actor)
        \/ l.is_shared

\* the access check the item handlers make on item.shopping_list
item_access(actor, item_id, allow_shared) ==
    LET l == lists[items[item_id].shopping_list_id]
    IN  \/ l.user_id = actor
        \/ is_admin(actor)
        \/ (allow_shared /\ l.is_shared)

\* ShoppingListItemCreateSchema().load(data) succeeds
ShoppingListItemCreateSchema(data) ==
    /\ Has(data, "name") /\ ValidText(Val(data, "name"))
    /\ Has(data, "quantity") => Len(Val(data, "quantity")) <= MaxQuantityLen

\* ShoppingListItemUpdateSchema().load(data) succeeds
ShoppingListItemUpdateSchema(data) ==
    /\ \A k \in DOMAIN data : Has(data, k) => k \in {"name", "quantity", "is_checked"}
    /\ Has(data, "name") => ValidText(Val(data, "name"))
    /\ Has(data, "quantity") => Len(Val(data, "quantity")) <= MaxQuantityLen

\* ShoppingListItemReorderSchema().load(data) succeeds
ShoppingListItemReorderSchema(data) ==
    Has(data, "order_index") /\ Val(data, "order_index") >= MinOrderIndex

\* db.func.max(order_index) over the active items of the list, or 0
max_order(list_id) ==
    LET S == {items[i].order_index : i \in {j \in ItemsOf(list_id) : ItemActive(j)}}
    IN  IF S = {} THEN 0 ELSE SetMax(S)

\* ShoppingListItem(shopping_list_id=..., name=..., quantity=...,
\* order_index=max_order + 1) with the column defaults
new_item(list_id, data) ==
    [exists |-> TRUE, shopping_list_id |-> list_id, name |-> Val(data, "name"),
     quantity |-> IF Has(data, "quantity") THEN Val(data, "quantity") ELSE "1",
     is_checked |-> FALSE, order_index |-> max_order(list_id) + 1,
     version |-> InitialVersion, deleted_at |-> NULL]

\* POST /lists/<list_id>/items
create_item(actor, list_id, data) ==
    LET auth == list_access_required(actor, list_id, TRUE)
        out == IF auth # "OK" THEN auth
               ELSE IF ~ListActive(list_id) THEN "NotFound"
               ELSE IF ~ShoppingListItemCreateSchema(data) THEN "ValidationError"
               ELSE "OK"
    IN  /\ IF out = "OK"
           THEN /\ NextItemId \in ItemIds
                /\ items' = [items EXCEPT ![NextItemId] = new_item(list_id, data)]
                /\ resp' = Reply("create_item", actor, NextItemId, out)
           ELSE /\ resp' = Reply("create_item", actor, 0, out)
                /\ UNCHANGED items
        /\ UNCHANGED <<lists, nextGuid, now, sess, users, revoked, admin_created>>

\* update_item, "Update fields": the row the commit writes
update_item_fields(row, data) ==
    LET r1 == IF Has(data, "name") THEN [row EXCEPT !.name = Val(data, "name")] ELSE row
        r2 == IF Has(data, "quantity") THEN [r1 EXCEPT !.quantity = Val(data, "quantity")] ELSE r1
    IN  IF Has(data, "is_checked") THEN [r2 EXCEPT !.is_checked = Val(data, "is_checked")] ELSE r2

\* PUT /items/<item_id>
update_item(actor, item_id, data) ==
    LET out == IF ~(item_id \in ItemIds /\ ItemActive(item_id)) THEN "NotFound"
               ELSE IF ~item_access(actor, item_id, TRUE) THEN "Forbidden"
               ELSE IF ~ShoppingListItemUpdateSchema(data) THEN "ValidationError"
               ELSE "OK"
    IN  /\ resp' = [ItemReply("update_item", actor, item_id, data.version, out) EXCEPT
                       !.wellformed =
                           ShoppingListItemUpdateSchema([data EXCEPT !.version = Absent])]
        /\ IF out = "OK"
           THEN items' = [items EXCEPT ![item_id] = update_item_fields(@, data)]
           ELSE UNCHANGED items
        /\ UNCHANGED <<lists, nextGuid, now, sess, users, revoked, admin_created>>

\* GET /items/<item_id>
get_item(actor, item_id) ==
    LET out == IF ~(item_id \in ItemIds /\ ItemActive(item_id)) THEN "NotFound"
               ELSE IF ~item_access(actor, item_id, TRUE) THEN "Forbidden"
               ELSE "OK"
    IN  /\ resp' = ItemReply("get_item", actor, item_id, Absent, out)
        /\ UNCHANGED <<lists, items, nextGuid, now, sess, users, revoked, admin_created>>

\* DELETE /items/<item_id>
delete_item(actor, item_id) ==
    LET out == IF ~(item_id \in ItemIds /\ ItemActive(item_id)) THEN "NotFound"
               ELSE IF ~item_access(actor, item_id, TRUE) THEN "Forbidden"
               ELSE "OK"
    IN  /\ resp' = ItemReply("delete_item", actor, item_id, Absent, out)
        /\ IF out = "OK"
           THEN items' = [items EXCEPT ![item_id] = item_soft_delete(@)]
           ELSE UNCHANGED items
        /\ UNCHANGED <<lists, nextGuid, now, sess, users, revoked, admin_created>>

\* POST /items/<item_id>/toggle
toggle_item(actor, item_id) ==
    LET out == IF ~(item_id \in ItemIds /\ ItemActive(item_id)) THEN "NotFound"
               ELSE IF ~item_access(actor, item_id, TRUE) THEN "Forbidden"
               ELSE "OK"
    IN  /\ resp' = ItemReply("toggle_item", actor, item_id, Absent, out)
        /\ IF out = "OK"
           THEN items' = [items EXCEPT ![item_id] = [@ EXCEPT !.is_checked = ~@]]
           ELSE UNCHANGED items
        /\ UNCHANGED <<lists, nextGuid, now, sess, users, revoked, admin_created>>

\* PUT /items/<item_id>/reorder
reorder_item(actor, item_id, data) ==
    LET out == IF ~(item_id \in ItemIds /\ ItemActive(item_id)) THEN "NotFound"
               ELSE IF ~item_access(actor, item_id, FALSE) THEN "Forbidden"
               ELSE IF ~ShoppingListItemReorderSchema(data) THEN "ValidationError"
               ELSE "OK"
    IN  /\ resp' = ItemReply("reorder_item", actor, item_id, Absent, out)
        /\ IF out = "OK"
           THEN items' = [items EXCEPT ![item_id] =
                    [@ EXCEPT !.order_index = Val(data, "order_index")]]
           ELSE UNCHANGED items
        /\ UNCHANGED <<lists, nextGuid, now, sess, users, revoked, admin_created>>

\* the checked items of the list, those in the trash included
checked_items_any_state(list_id) == {i \in ItemsOf(list_id) : items[i].is_checked}

\* ShoppingListItem.active().filter_by(shopping_list_id=list_id,
\* is_checked=True).all()
checked_items(list_id) == {i \in ItemsOf(list_id) : ItemActive(i) /\ items[i].is_checked}

\* POST /lists/<list_id>/items/clear-checked
clear_checked_items(actor, list_id) ==
    LET auth == list_access_required(actor, list_id, FALSE)
        out == IF auth # "OK" THEN auth
               ELSE IF ~ListActive(list_id) THEN "NotFound"
               ELSE "OK"
    IN  /\ IF out = "OK"
           THEN /\ items' = [i \in ItemIds |->
                       IF i \in checked_items(list_id)
                       THEN item_soft_delete(items[i]) ELSE items[i]]
                /\ resp' = [ListReply("clear_checked_items", actor, list_id, NoBody, out)
                               EXCEPT !.count = Cardinality(checked_items(list_id))]
           ELSE /\ resp' = ListReply("clear_checked_items", actor, list_id, NoBody, out)
                /\ UNCHANGED items
        /\ UNCHANGED <<lists, nextGuid, now, sess, users, revoked, admin_created>>

\* POST /items/<item_id>/restore
restore_item(actor, item_id) ==
    LET out == IF ~(item_id \in ItemIds /\ ItemDeleted(item_id)) THEN "NotFound"
               ELSE IF ~item_access(actor, item_id, FALSE) THEN "Forbidden"
               ELSE "OK"
    IN  /\ resp' = ItemReply("restore_item", actor, item_id, Absent, out)
        /\ IF out = "OK"
           THEN items' = [items EXCEPT ![item_id] = item_restore(@)]
           ELSE UNCHANGED items
        /\ UNCHANGED <<lists, nextGuid, now, sess, users, revoked, admin_created>>

\* ------------------------------------------------------------------------
\* The routes of the api blueprint itself (/api/..., registered next to
\* /api/v1): login_required, rows taken with Model.query over ALL rows, no
\* schema, no version, db.session.delete instead of the trash
\* ------------------------------------------------------------------------
\* utils.check_list_access for a logged-in user
check_list_access(actor, row, allow_shared) ==
    \/ is_admin(actor)
    \/ row.user_id = actor
    \/ (allow_shared /\ row.is_shared)

\* GET /api/lists/<list_id>
api_get_list(actor, list_id) ==
    LET out == IF ~(list_id \in ListIds /\ lists[list_id].exists) THEN "NotFound"
               ELSE IF ~check_list_access(actor, lists[list_id], TRUE) THEN "Forbidden"
               ELSE "OK"
    IN  /\ resp' = ListReply("api_get_list", actor, list_id, NoBody, out)
        /\ UNCHANGED <<lists, items, nextGuid, now, sess, users, revoked, admin_created>>

\* api update_list, "if 'title' in data" and "if 'is_shared' in data": the
\* row the commit writes; the GUID is left as it is
api_update_list_fields(row, data) ==
    LET r1 == IF Has(data, "title") THEN [row EXCEPT !.title = Val(data, "title")] ELSE row
    IN  IF Has(data, "is_shared") THEN [r1 EXCEPT !.is_shared = Val(data, "is_shared")] ELSE r1

\* PUT /api/lists/<list_id>
api_update_list(actor, list_id, data) ==
    LET out == IF ~(list_id \in ListIds /\ lists[list_id].exists) THEN "NotFound"
               ELSE IF lists[list_id].user_id # actor /\ ~is_admin(actor) THEN "Forbidden"
               ELSE "OK"
    IN  /\ resp' = ListReply("api_update_list", actor, list_id, data, out)
        /\ IF out = "OK"
           THEN lists' = [lists EXCEPT ![list_id] = api_update_list_fields(@, data)]
           ELSE UNCHANGED lists
        /\ UNCHANGED <<items, nextGuid, now, sess, users, revoked, admin_created>>

\* DELETE /api/lists/<list_id>
api_delete_list(actor, list_id) ==
    LET out == IF ~(list_id \in ListIds /\ lists[list_id].exists) THEN "NotFound"
               ELSE IF lists[list_id].user_id # actor /\ ~is_admin(actor) THEN "Forbidden"
               ELSE "OK"
    IN  /\ resp' = ListReply("api_delete_list", actor, list_id, NoBody, out)
        /\ IF out = "OK"
           THEN /\ lists' = session_delete_list(list_id)
                /\ items' = session_delete_list_items(list_id)
           ELSE UNCHANGED <<lists, items>>
        /\ UNCHANGED <<nextGuid, now, sess, users, revoked, admin_created>>

\* api create_item: max(order_index) over every item row of the list, "or 0"
api_max_order(list_id) ==
    LET S == {items[i].order_index : i \in ItemsOf(list_id)}
    IN  IF S = {} THEN 0 ELSE SetMax(S)

\* ShoppingListItem(shopping_list_id=..., name=data['name'],
\* quantity=data.get('quantity', '1'), order_index=max_order + 1)
api_new_item(list_id, data) ==
    [new_item(list_id, data) EXCEPT !.order_index = api_max_order(list_id) + 1]

\* POST /api/lists/<list_id>/items
api_create_item(actor, list_id, data) ==
    LET out == IF ~(list_id \in ListIds /\ lists[list_id].exists) THEN "NotFound"
               ELSE IF ~check_list_access(actor, lists[list_id], TRUE) THEN "Forbidden"
               ELSE IF ~Has(data, "name") THEN "ValidationError"
               ELSE "OK"
    IN  /\ IF out = "OK"
           THEN /\ NextItemId \in ItemIds
                /\ items' = [items EXCEPT ![NextItemId] = api_new_item(list_id, data)]
                /\ resp' = Reply("api_create_item", actor, NextItemId, out)
           ELSE /\ resp' = Reply("api_create_item", actor, 0, out)
                /\ UNCHANGED items
        /\ UNCHANGED <<lists, nextGuid, now, sess, users, revoked, admin_created>>

\* DELETE /api/items/<item_id>
api_delete_item(actor, item_id) ==
    LET out == IF ~(item_id \in ItemIds /\ items[item_id].exists) THEN "NotFound"
               ELSE IF ~check_list_access(actor, lists[items[item_id].shopping_list_id], TRUE)
                    THEN "Forbidden"
               ELSE "OK"
    IN  /\ resp' = ItemReply("api_delete_item", actor, item_id, Absent, out)
        /\ IF out = "OK"
           THEN items' = [items EXCEPT ![item_id] = NoItem]
           ELSE UNCHANGED items
        /\ UNCHANGED <<lists, nextGuid, now, sess, users, revoked, admin_created>>

\* api get_shared_list: ShoppingList.query.filter_by(guid=guid)
\* .first_or_404() over ALL rows, then the check of is_shared
api_shared_lookup(guid) ==
    LET found == {l \in ListIds : lists[l].exists /\ lists[l].guid = guid}
    IN  IF found = {} THEN "NotFound"
        ELSE IF ~(\E l \in found : lists[l].is_shared) THEN "NotFound"
        ELSE "OK"

\* GET /api/shared/<guid>, without authentication
api_get_shared_list(guid) ==
    /\ resp' = Reply("api_get_shared_list", "", guid, api_shared_lookup(guid))
    /\ UNCHANGED <<lists, items, nextGuid, now, sess, users, revoked, admin_created>>

\* ------------------------------------------------------------------------
\* Users (/api/v1/users).  A list names its owner by the username, which is
\* unique in the table (models.py:17).
\* ------------------------------------------------------------------------
\* get_current_user(): the row of the user the token names
current_user(actor) ==
    \E u \in UserIds : users[u].exists /\ users[u].username = actor

\* user.shopping_lists: the lists of the user, in the trash or not
shopping_lists(username) ==
    {l \in ListIds : lists[l].exists /\ lists[l].user_id = username}

\* a cascade that leaves the lists in the trash behind
user_delete_lists_active_only(username) ==
    [l \in ListIds |->
        IF l \in shopping_lists(username) /\ ListActive(l) THEN NoList ELSE lists[l]]

\* db.session.delete(user): the cascade 'all, delete-orphan' of
\* User.shopping_lists deletes every list of the user ...
user_delete_lists(username) ==
    [l \in ListIds |-> IF l \in shopping_lists(username) THEN NoList ELSE lists[l]]

\* ... and the cascade of ShoppingList.items every item of those lists
user_delete_items(username) ==
    [i \in ItemIds |->
        IF items[i].exists /\ items[i].shopping_list_id \in shopping_lists(username)
        THEN NoItem ELSE items[i]]

\* DELETE /users/<user_id>; count is list_count
delete_user(actor, user_id) ==
    LET out == IF ~is_admin(actor) THEN "Forbidden"
               ELSE IF ~(user_id \in UserIds /\ users[user_id].exists) THEN "NotFound"
               ELSE IF users[user_id].username = actor THEN "InvalidInput"
               ELSE "OK"
    IN  /\ resp' = IF out = "OK"
                   THEN [Reply("delete_user", actor, user_id, out)
                            EXCEPT !.count = Cardinality(shopping_lists(users[user_id].username))]
                   ELSE Reply("delete_user", actor, user_id, out)
        /\ IF out = "OK"
           THEN /\ users' = [users EXCEPT ![user_id] = NoUser]
                /\ lists' = user_delete_lists(users[user_id].username)
                /\ items' = user_delete_items(users[user_id].username)
           ELSE UNCHANGED <<users, lists, items>>
        /\ UNCHANGED <<nextGuid, now, sess, revoked, admin_created>>

\* ------------------------------------------------------------------------
\* Tokens (/api/v1/auth, /api/v1/admin/tokens).  A token is known by its
\* jti; its claims are signed and cannot change.
\* ------------------------------------------------------------------------
Jtis == 1..MaxTokens

\* the identity claim: the last token is the admin's, the others alice's
TokenUser(jti) == IF jti = MaxTokens THEN "admin" ELSE "alice"

\* the exp claim: the first token is short-lived, the others outlast the
\* run of the clock
TokenExp(jti) == IF jti = 1 THEN 2 ELSE MaxTime + 2

\* RevokedToken.is_jti_blacklisted(jti)
is_jti_blacklisted(jti) == \E r \in revoked : r.jti = jti

\* jwt_required(): the exp claim is checked by the decoder, then the
\* blocklist loader check_if_token_revoked is asked
jwt_required(jti) ==
    IF TokenExp(jti) <= now THEN "Unauthorized"
    ELSE IF is_jti_blacklisted(jti) THEN "Unauthorized"
    ELSE "OK"

\* GET /auth/me, an endpoint behind jwt_required()
get_current_user_info(jti) ==
    /\ resp' = Reply("get_current_user_info", TokenUser(jti), jti, jwt_required(jti))
    /\ UNCHANGED <<lists, items, nextGuid, now, sess, users, revoked, admin_created>>

\* POST /auth/logout: RevokedToken.add_to_blacklist with the exp of the token
logout(jti) ==
    LET out == jwt_required(jti)
    IN  /\ resp' = Reply("logout", TokenUser(jti), jti, out)
        /\ revoked' = IF out = "OK"
                      THEN revoked \cup {[jti |-> jti, expires_at |-> TokenExp(jti)]}
                      ELSE revoked
        /\ UNCHANGED <<lists, items, nextGuid, now, sess, users, admin_created>>

\* a cleanup that takes every row of the blacklist
expired_tokens_any == revoked

\* cls.query.filter(cls.expires_at < now)
expired_tokens == {r \in revoked : r.expires_at < now}

\* POST /admin/tokens/cleanup: RevokedToken.cleanup_expired_tokens(); count
\* is deleted_count
cleanup_revoked_tokens(jti) ==
    LET auth == jwt_required(jti)
        out == IF auth # "OK" THEN auth
               ELSE IF ~is_admin(TokenUser(jti)) THEN "Forbidden"
               ELSE "OK"
    IN  /\ resp' = IF out = "OK"
                   THEN [Reply("cleanup_revoked_tokens", TokenUser(jti), jti, out)
                            EXCEPT !.count = Cardinality(expired_tokens)]
                   ELSE Reply("cleanup_revoked_tokens", TokenUser(jti), jti, out)
        /\ revoked' = IF out = "OK" THEN revoked \ expired_tokens ELSE revoked
        /\ UNCHANGED <<lists, items, nextGuid, now, sess, users, admin_created>>

\* ------------------------------------------------------------------------
\* The command line (flask cleanup-trash)
\* ------------------------------------------------------------------------
\* --days as the operator gives it
DaysInputs == 0..1

\* old_items and old_lists: the rows of the trash older than the cutoff
old_items(cutoff) == {i \in ItemIds : ItemDeleted(i) /\ items[i].deleted_at < cutoff}

old_lists(cutoff) == {l \in ListIds : ListDeleted(l) /\ lists[l].deleted_at < cutoff}

\* cleanup-trash --days N without --dry-run: db.session.delete on every old
\* item and every old list, whose cascade takes the item rows of the list;
\* id is N and count is len(old_items)
cleanup_trash_command(days) ==
    LET cutoff == now - days
    IN  /\ resp' = [Reply("cleanup_trash_command", "", days, "OK")
                       EXCEPT !.count = Cardinality(old_items(cutoff))]
        /\ lists' = [l \in ListIds |-> IF l \in old_lists(cutoff) THEN NoList ELSE lists[l]]
        /\ items' = [i \in ItemIds |->
                        IF \/ i \in old_items(cutoff)
                           \/ items[i].exists /\ items[i].shopping_list_id \in old_lists(cutoff)
                        THEN NoItem ELSE items[i]]
        /\ UNCHANGED <<nextGuid, now, sess, users, revoked, admin_created>>

\* ------------------------------------------------------------------------
\* The system: one worker, each request handled to completion and answered
\* before the next one is taken
\* ------------------------------------------------------------------------
\* no response is waiting to be sent
Idle == resp = NoResp

\* the response goes out to the client
Deliver ==
    /\ resp # NoResp
    /\ resp' = NoResp
    /\ UNCHANGED <<lists, items, nextGuid, now, sess, users, revoked, admin_created>>

\* the clock moves on between requests
Tick ==
    /\ now < MaxTime
    /\ now' = now + 1
    /\ UNCHANGED <<lists, items, nextGuid, resp, sess, users, revoked, admin_created>>

\* the clock moves on, one step further than Tick takes it
TickOn ==
    /\ now < MaxTime + 1
    /\ now' = now + 1
    /\ UNCHANGED <<lists, items, nextGuid, resp, sess, users, revoked, admin_created>>

\* the three accounts of Users are registered, the default admin first
\* (the bootstrap has run), and no token has been revoked
InitAccounts ==
    /\ users = [u \in UserIds |->
                   IF u = 1 THEN [exists |-> TRUE, username |-> "admin", is_admin |-> TRUE]
                   ELSE IF u = 2 THEN [exists |-> TRUE, username |-> "alice", is_admin |-> FALSE]
                   ELSE IF u = 3 THEN [exists |-> TRUE, username |-> "bob", is_admin |-> FALSE]
                   ELSE NoUser]
    /\ revoked = {}
    /\ admin_created = TRUE

Init ==
    /\ lists = [l \in ListIds |-> NoList]
    /\ items = [i \in ItemIds |-> NoItem]
    /\ nextGuid = 1
    /\ now = 1
    /\ resp = NoResp
    /\ sess = [c \in Clients |-> IdleSession]
    /\ InitAccounts

\* the item endpoints, and the list endpoints that decide what an item
\* request may do (existence, sharing, trash)
NextItems ==
    \/ /\ Idle
       /\ \/ /\ NextListId <= MaxListsSpec
             /\ \E s \in BOOLEAN : create_list("alice", "milk", s)
          \/ \E u \in Users, l \in SpecListIds : delete_list(u, l)
          \/ \E u \in Users, l \in SpecListIds : restore_list(u, l)
          \/ \E u \in Users, l \in SpecListIds, d \in CreateItemBodies : create_item(u, l, d)
          \/ \E u \in Users, i \in ItemIds, d \in UpdateItemBodies : update_item(u, i, d)
          \/ \E u \in Users, i \in ItemIds : delete_item(u, i)
          \/ \E u \in Users, i \in ItemIds : toggle_item(u, i)
          \/ \E u \in Users, i \in ItemIds, d \in ReorderBodies : reorder_item(u, i, d)
          \/ \E u \in Users, l \in SpecListIds : clear_checked_items(u, l)
          \/ \E u \in Users, i \in ItemIds : restore_item(u, i)
          \/ Tick
    \/ Deliver

SpecItems == Init /\ [][NextItems]_vars

\* every endpoint, on a database of MaxListsSpec lists and MaxItemsSpec items
Next ==
    \/ /\ Idle
       /\ \/ /\ NextListId <= MaxListsSpec
             /\ \E u \in Creators, t \in TitleInputs, s \in BOOLEAN : create_list(u, t, s)
          \/ \E u \in Users, l \in SpecListIds, d \in UpdateListBodies : update_list(u, l, d)
          \/ \E u \in Users, l \in SpecListIds, d \in ShareBodies : toggle_share_list(u, l, d)
          \/ \E u \in Users, l \in SpecListIds : delete_list(u, l)
          \/ \E u \in Users, l \in SpecListIds : restore_list(u, l)
          \/ /\ NextItemId <= MaxItemsSpec
             /\ \E u \in Users, l \in SpecListIds, d \in CreateItemBodies : create_item(u, l, d)
          \/ \E u \in Users, i \in ItemIds, d \in UpdateItemBodies : update_item(u, i, d)
          \/ \E u \in Users, i \in ItemIds : delete_item(u, i)
          \/ \E u \in Users, i \in ItemIds : toggle_item(u, i)
          \/ \E u \in Users, i \in ItemIds, d \in ReorderBodies : reorder_item(u, i, d)
          \/ \E u \in Users, l \in SpecListIds : clear_checked_items(u, l)
          \/ \E u \in Users, i \in ItemIds : restore_item(u, i)
          \/ Tick
    \/ Deliver

Spec == Init /\ [][Next]_vars

\* bodies of PUT /lists/<id> without a version key: a new title or a new
\* value of is_shared
TrashUpdateBodies ==
    {d \in UpdateListBodies : d.version = Absent /\ d.title \in {Absent, Some("eggs")}}

TrashCreateItemBodies == {d \in CreateItemBodies : d.name = Some("tea") /\ d.quantity = Absent}

TrashUpdateItemBodies ==
    {d \in UpdateItemBodies : d.version = Absent /\ d.name = Some("rice")}

\* the life cycle of a list and its item: sharing, trash, restore and
\* permanent deletion, with the reads that resolve a list or an item
NextTrash ==
    \/ /\ Idle
       /\ \/ /\ NextListId <= MaxListsSpec
             /\ \E u \in Creators, s \in BOOLEAN : create_list(u, "milk", s)
          \/ \E u \in Users, l \in SpecListIds, d \in TrashUpdateBodies : update_list(u, l, d)
          \/ \E u \in Users, l \in SpecListIds, d \in ShareBodies : toggle_share_list(u, l, d)
          \/ \E u \in Users, l \in SpecListIds : delete_list(u, l)
          \/ \E u \in Users, l \in SpecListIds : restore_list(u, l)
          \/ \E u \in Users, l \in SpecListIds : permanent_delete_list(u, l)
          \/ \E u \in Users, l \in SpecListIds : admin_delete_list(u, l)
          \/ \E u \in Users, l \in SpecListIds : get_list(u, l)
          \/ \E u \in Users : get_user_lists(u)
          \/ \E g \in GuidInputs : get_shared_list(g)
          \/ /\ NextItemId <= MaxItemsSpec
             /\ \E u \in Users, l \in SpecListIds, d \in TrashCreateItemBodies : create_item(u, l, d)
          \/ \E u \in Users, i \in ItemIds : get_item(u, i)
          \/ \E u \in Users, i \in ItemIds, d \in TrashUpdateItemBodies : update_item(u, i, d)
          \/ \E u \in Users, i \in ItemIds : delete_item(u, i)
          \/ \E u \in Users, i \in ItemIds : toggle_item(u, i)
          \/ \E u \in Users, i \in ItemIds, d \in ReorderBodies : reorder_item(u, i, d)
          \/ \E u \in Users, l \in SpecListIds : clear_checked_items(u, l)
          \/ \E u \in Users, i \in ItemIds : restore_item(u, i)
          \/ \E u \in Users, l \in SpecListIds : api_get_list(u, l)
          \/ \E u \in Users, l \in SpecListIds, d \in TrashUpdateBodies : api_update_list(u, l, d)
          \/ \E u \in Users, l \in SpecListIds : api_delete_list(u, l)
          \/ /\ NextItemId <= MaxItemsSpec
             /\ \E u \in Users, l \in SpecListIds, d \in TrashCreateItemBodies :
                   api_create_item(u, l, d)
          \/ \E u \in Users, i \in ItemIds : api_delete_item(u, i)
          \/ \E g \in GuidInputs : api_get_shared_list(g)
          \/ Tick
    \/ Deliver

SpecTrash == Init /\ [][NextTrash]_vars

\* the same, with the guarantee that a response that is ready is sent
SpecTrashFair == SpecTrash /\ WF_vars(Deliver)

\* clearing the checked items where the database holds MaxLists lists of one
\* owner: items are created, checked, trashed one by one and cleared
NextClear ==
    \/ /\ Idle
       /\ \/ create_list("alice", "milk", FALSE)
          \/ \E l \in ListIds, d \in TrashCreateItemBodies : create_item("alice", l, d)
          \/ \E i \in ItemIds : toggle_item("alice", i)
          \/ \E i \in ItemIds : delete_item("alice", i)
          \/ \E u \in Users, l \in ListIds : clear_checked_items(u, l)
          \/ Tick
    \/ Deliver

SpecClear == Init /\ [][NextClear]_vars

\* the accounts: alice and bob each keep lists and items, some in the trash,
\* and users are deleted; a request of a user whose row is gone is turned
\* away by get_current_user() and is left out
NextUsers ==
    \/ /\ Idle
       /\ \/ \E u \in {"alice", "bob"} :
                current_user(u) /\ create_list(u, "milk", FALSE)
          \/ \E u \in {"alice", "bob"}, l \in ListIds, d \in TrashCreateItemBodies :
                current_user(u) /\ create_item(u, l, d)
          \/ \E u \in {"alice", "bob"}, l \in ListIds :
                current_user(u) /\ delete_list(u, l)
          \/ \E u \in {"alice", "bob"}, i \in ItemIds :
                current_user(u) /\ delete_item(u, i)
          \/ \E u \in Users, v \in UserIds : current_user(u) /\ delete_user(u, v)
    \/ Deliver

SpecUsers == Init /\ [][NextUsers]_vars

\* the two ways to edit a list, PUT /api/v1/lists/<id> and the form of the
\* server-rendered pages
EditUpdateBodies ==
    {d \in UpdateListBodies : d.version = Absent /\ d.title \in {Absent, Some("eggs")}}

NextEdit ==
    \/ /\ Idle
       /\ \/ /\ NextListId <= MaxListsSpec
             /\ \E s \in BOOLEAN : create_list("alice", "milk", s)
          \/ \E u \in Users, l \in SpecListIds, d \in EditUpdateBodies : update_list(u, l, d)
          \/ \E u \in Users, l \in SpecListIds, f \in EditListForms : edit_list(u, l, f)
          \/ \E u \in Users, l \in SpecListIds : delete_list(u, l)
    \/ Deliver

SpecEdit == Init /\ [][NextEdit]_vars

\* logging out, asking with a token, and cleaning the blacklist up, while
\* the clock runs past the expiry of the short-lived token
NextAuth ==
    \/ /\ Idle
       /\ \/ \E t \in Jtis : get_current_user_info(t)
          \/ \E t \in Jtis : logout(t)
          \/ \E t \in Jtis : cleanup_revoked_tokens(t)
          \/ TickOn
    \/ Deliver

SpecAuth == Init /\ [][NextAuth]_vars

\* the trash of one owner and the command that empties it
NextCleanup ==
    \/ /\ Idle
       /\ \/ /\ NextListId <= MaxListsSpec
             /\ create_list("alice", "milk", FALSE)
          \/ \E l \in SpecListIds, d \in TrashCreateItemBodies : create_item("alice", l, d)
          \/ \E i \in ItemIds : delete_item("alice", i)
          \/ \E i \in ItemIds : restore_item("alice", i)
          \/ \E l \in SpecListIds : delete_list("alice", l)
          \/ \E l \in SpecListIds : restore_list("alice", l)
          \/ \E n \in DaysInputs : cleanup_trash_command(n)
          \/ Tick
    \/ Deliver

SpecCleanup == Init /\ [][NextCleanup]_vars

\* ------------------------------------------------------------------------
\* Two update_list requests handled at the same time.  Each request has its
\* own SQLAlchemy session: the rows it has read stay as read until commit,
\* and the commit writes the columns the request changed.
\* ------------------------------------------------------------------------
\* the decorator's ShoppingList.query.get and the handler's query of the
\* active list: the row is read into the session
update_list_load(c, actor, list_id, data) ==
    LET auth == list_owner_or_admin_required(actor, list_id)
        out == IF auth # "OK" THEN auth
               ELSE IF ~ListActive(list_id) THEN "NotFound"
               ELSE "OK"
    IN  /\ sess[c].pc = "idle"
        /\ sess' = [sess EXCEPT ![c] =
               [pc |-> IF out = "OK" THEN "loaded" ELSE "done",
                actor |-> actor, list_id |-> list_id, data |-> data,
                loaded |-> IF list_id \in ListIds THEN lists[list_id] ELSE NoList,
                outcome |-> IF out = "OK" THEN "none" ELSE out,
                stored |-> IF list_id \in ListIds THEN lists[list_id].version ELSE 0]]
        /\ UNCHANGED <<lists, items, nextGuid, now, resp, users, revoked, admin_created>>

\* schema.load and check_version, on the row as the session read it
update_list_validate(c) ==
    LET out == update_list_check(sess[c].loaded, sess[c].data)
    IN  /\ sess[c].pc = "loaded"
        /\ sess' = [sess EXCEPT ![c] =
               [@ EXCEPT !.pc = IF out = "OK" THEN "checked" ELSE "done",
                         !.outcome = IF out = "OK" THEN "none" ELSE out]]
        /\ UNCHANGED <<lists, items, nextGuid, now, resp, users, revoked, admin_created>>

\* the UPDATE that db.session.commit() flushes: the columns whose value the
\* request changed are written, the others keep what the table holds
flush_list(stored, loaded, changed) ==
    [stored EXCEPT
        !.title = IF changed.title # loaded.title THEN changed.title ELSE @,
        !.is_shared = IF changed.is_shared # loaded.is_shared THEN changed.is_shared ELSE @,
        !.guid = IF changed.guid # loaded.guid THEN changed.guid ELSE @,
        !.version = IF changed.version # loaded.version THEN changed.version ELSE @]

\* "Update fields", increment_version and db.session.commit()
update_list_commit(c) ==
    LET l == sess[c].list_id
        changed == update_list_fields(sess[c].loaded, sess[c].data, nextGuid)
    IN  /\ sess[c].pc = "checked"
        /\ sess[c].loaded.version < MaxVersion
        /\ nextGuid <= MaxGuid
        /\ lists' = [lists EXCEPT ![l] = flush_list(@, sess[c].loaded, changed)]
        /\ nextGuid' = IF changed.guid # sess[c].loaded.guid THEN nextGuid + 1 ELSE nextGuid
        /\ sess' = [sess EXCEPT ![c] = [@ EXCEPT !.pc = "done", !.outcome = "OK"]]
        /\ UNCHANGED <<items, now, resp, users, revoked, admin_created>>

\* versions the list has when the two requests arrive
RaceVersions == 1..(MaxVersion - 1)

InitRace ==
    /\ \E v \in RaceVersions :
          lists = [l \in ListIds |->
                      IF l = 1
                      THEN [exists |-> TRUE, user_id |-> "alice", title |-> "milk",
                            is_shared |-> FALSE, guid |-> 1, version |-> v,
                            deleted_at |-> NULL]
                      ELSE NoList]
    /\ items = [i \in ItemIds |-> NoItem]
    /\ nextGuid = 2
    /\ now = 1
    /\ resp = NoResp
    /\ sess = [c \in Clients |-> IdleSession]
    /\ InitAccounts

NextRace ==
    \/ \E c \in Clients, u \in Users, l \in SpecListIds, d \in UpdateListBodies :
          update_list_load(c, u, l, d)
    \/ \E c \in Clients : update_list_validate(c)
    \/ \E c \in Clients : update_list_commit(c)

SpecRace == InitRace /\ [][NextRace]_vars

\* ------------------------------------------------------------------------
\* delete_list and create_item requests handled at the same time, each in
\* its own SQLAlchemy session.  A SELECT holds no lock once it has returned;
\* the writes of a request reach the table together, at its commit.
\* ------------------------------------------------------------------------
NoItemBody == [name |-> Absent, quantity |-> Absent]

IdleTxn ==
    [pc |-> "idle", op |-> "none", actor |-> "", list_id |-> 0, data |-> NoItemBody,
     seen |-> {}, row |-> NoItem, outcome |-> "none"]

\* delete_list: the decorator and the query of the active list
delete_list_load(c, actor, list_id) ==
    LET auth == list_owner_or_admin_required(actor, list_id)
        out == IF auth # "OK" THEN auth
               ELSE IF ~ListActive(list_id) THEN "NotFound"
               ELSE "OK"
    IN  /\ sess[c].pc = "idle"
        /\ sess' = [sess EXCEPT ![c] =
               [IdleTxn EXCEPT !.pc = IF out = "OK" THEN "loaded" ELSE "done",
                               !.op = "delete_list", !.actor = actor, !.list_id = list_id,
                               !.outcome = IF out = "OK" THEN "none" ELSE out]]
        /\ UNCHANGED <<lists, items, nextGuid, now, resp, users, revoked, admin_created>>

\* shopping_list.soft_delete(): "for item in self.items" reads the item
\* rows the list has now and marks each of them in the session
delete_list_cascade(c) ==
    /\ sess[c].pc = "loaded"
    /\ sess[c].op = "delete_list"
    /\ sess' = [sess EXCEPT ![c] = [@ EXCEPT !.pc = "dirty", !.seen = ItemsOf(sess[c].list_id)]]
    /\ UNCHANGED <<lists, items, nextGuid, now, resp, users, revoked, admin_created>>

\* db.session.commit() of delete_list: the UPDATE of the list row and of
\* the item rows the cascade has read, in one transaction
delete_list_commit(c) ==
    /\ sess[c].pc = "dirty"
    /\ sess[c].op = "delete_list"
    /\ lists' = [lists EXCEPT ![sess[c].list_id] = list_soft_delete(@)]
    /\ items' = [i \in ItemIds |->
                    IF i \in sess[c].seen THEN item_soft_delete(items[i]) ELSE items[i]]
    /\ sess' = [sess EXCEPT ![c] = [@ EXCEPT !.pc = "done", !.outcome = "OK"]]
    /\ UNCHANGED <<nextGuid, now, resp, users, revoked, admin_created>>

\* create_item: the decorator and the query of the active list
create_item_load(c, actor, list_id, data) ==
    LET auth == list_access_required(actor, list_id, TRUE)
        out == IF auth # "OK" THEN auth
               ELSE IF ~ListActive(list_id) THEN "NotFound"
               ELSE "OK"
    IN  /\ sess[c].pc = "idle"
        /\ sess' = [sess EXCEPT ![c] =
               [IdleTxn EXCEPT !.pc = IF out = "OK" THEN "loaded" ELSE "done",
                               !.op = "create_item", !.actor = actor, !.list_id = list_id,
                               !.data = data,
                               !.outcome = IF out = "OK" THEN "none" ELSE out]]
        /\ UNCHANGED <<lists, items, nextGuid, now, resp, users, revoked, admin_created>>

\* create_item: schema.load, the max_order query and ShoppingListItem(...)
create_item_validate(c) ==
    LET ok == ShoppingListItemCreateSchema(sess[c].data)
    IN  /\ sess[c].pc = "loaded"
        /\ sess[c].op = "create_item"
        /\ sess' = [sess EXCEPT ![c] =
               [@ EXCEPT !.pc = IF ok THEN "dirty" ELSE "done",
                         !.outcome = IF ok THEN "none" ELSE "ValidationError",
                         !.row = IF ok THEN new_item(sess[c].list_id, sess[c].data)
                                 ELSE NoItem]]
        /\ UNCHANGED <<lists, items, nextGuid, now, resp, users, revoked, admin_created>>

\* db.session.add(item) and db.session.commit() of create_item: the INSERT
create_item_commit(c) ==
    /\ sess[c].pc = "dirty"
    /\ sess[c].op = "create_item"
    /\ NextItemId \in ItemIds
    /\ items' = [items EXCEPT ![NextItemId] = sess[c].row]
    /\ sess' = [sess EXCEPT ![c] = [@ EXCEPT !.pc = "done", !.outcome = "OK"]]
    /\ UNCHANGED <<lists, nextGuid, now, resp, users, revoked, admin_created>>

\* number of active items the list has when the requests arrive
CascadeItems == 0..(MaxItems - 1)

InitCascade ==
    /\ \E s \in BOOLEAN :
          lists = [l \in ListIds |->
                      IF l = 1 THEN new_list("alice", "milk", s, 1) ELSE NoList]
    /\ \E k \in CascadeItems :
          items = [i \in ItemIds |->
                      IF i <= k
                      THEN [exists |-> TRUE, shopping_list_id |-> 1, name |-> "tea",
                            quantity |-> "1", is_checked |-> FALSE, order_index |-> i,
                            version |-> InitialVersion, deleted_at |-> NULL]
                      ELSE NoItem]
    /\ nextGuid = 2
    /\ now = 1
    /\ resp = NoResp
    /\ sess = [c \in Clients |-> IdleTxn]
    /\ InitAccounts

NextCascade ==
    \/ \E c \in Clients, u \in Users, l \in SpecListIds : delete_list_load(c, u, l)
    \/ \E c \in Clients : delete_list_cascade(c)
    \/ \E c \in Clients : delete_list_commit(c)
    \/ \E c \in Clients, u \in Users, l \in SpecListIds, d \in CreateItemBodies :
          create_item_load(c, u, l, d)
    \/ \E c \in Clients : create_item_validate(c)
    \/ \E c \in Clients : create_item_commit(c)

SpecCascade == InitCascade /\ [][NextCascade]_vars

\* create_item requests alone, handled at the same time
NextCreate ==
    \/ \E c \in Clients, u \in Users, l \in SpecListIds, d \in CreateItemBodies :
          create_item_load(c, u, l, d)
    \/ \E c \in Clients : create_item_validate(c)
    \/ \E c \in Clients : create_item_commit(c)

SpecCreate == InitCascade /\ [][NextCreate]_vars

\* ------------------------------------------------------------------------
\* Two reorder_item requests handled at the same time, each in its own
\* SQLAlchemy session.
\* ------------------------------------------------------------------------
NoReorderBody == [order_index |-> Absent]

IdleReorder ==
    [pc |-> "idle", actor |-> "", item_id |-> 0, data |-> NoReorderBody,
     loaded |-> NoItem, outcome |-> "none"]

\* the query of the active item and the check of owner or admin: the item
\* row is read into the session
reorder_item_load(c, actor, item_id, data) ==
    LET out == IF ~ItemActive(item_id) THEN "NotFound"
               ELSE IF ~item_access(actor, item_id, FALSE) THEN "Forbidden"
               ELSE "OK"
    IN  /\ sess[c].pc = "idle"
        /\ sess' = [sess EXCEPT ![c] =
               [pc |-> IF out = "OK" THEN "loaded" ELSE "done",
                actor |-> actor, item_id |-> item_id, data |-> data,
                loaded |-> items[item_id],
                outcome |-> IF out = "OK" THEN "none" ELSE out]]
        /\ UNCHANGED <<lists, items, nextGuid, now, resp, users, revoked, admin_created>>

\* schema.load
reorder_item_validate(c) ==
    LET ok == ShoppingListItemReorderSchema(sess[c].data)
    IN  /\ sess[c].pc = "loaded"
        /\ sess' = [sess EXCEPT ![c] =
               [@ EXCEPT !.pc = IF ok THEN "checked" ELSE "done",
                         !.outcome = IF ok THEN "none" ELSE "ValidationError"]]
        /\ UNCHANGED <<lists, items, nextGuid, now, resp, users, revoked, admin_created>>

\* the UPDATE that db.session.commit() flushes for an item: order_index is
\* written when the request gave it a value other than the one it read, and
\* keeps what the table holds otherwise
flush_item(stored, loaded, changed) ==
    [stored EXCEPT
        !.order_index = IF changed.order_index # loaded.order_index
                        THEN changed.order_index ELSE @]

\* item.order_index = validated_data['order_index'] and db.session.commit()
reorder_item_commit(c) ==
    LET i == sess[c].item_id
        changed == [sess[c].loaded EXCEPT !.order_index = Val(sess[c].data, "order_index")]
    IN  /\ sess[c].pc = "checked"
        /\ items' = [items EXCEPT ![i] = flush_item(@, sess[c].loaded, changed)]
        /\ sess' = [sess EXCEPT ![c] = [@ EXCEPT !.pc = "done", !.outcome = "OK"]]
        /\ UNCHANGED <<lists, nextGuid, now, resp, users, revoked, admin_created>>

\* order_index of the items when the requests arrive
ReorderStart == 0..MaxOrder

\* alice's list with MaxItems active items
InitReorder ==
    /\ lists = [l \in ListIds |->
                   IF l = 1 THEN new_list("alice", "milk", FALSE, 1) ELSE NoList]
    /\ \E o \in [ItemIds -> ReorderStart] :
          items = [i \in ItemIds |->
                      [exists |-> TRUE, shopping_list_id |-> 1, name |-> "tea",
                       quantity |-> "1", is_checked |-> FALSE, order_index |-> o[i],
                       version |-> InitialVersion, deleted_at |-> NULL]]
    /\ nextGuid = 2
    /\ now = 1
    /\ resp = NoResp
    /\ sess = [c \in Clients |-> IdleReorder]
    /\ InitAccounts

NextReorder ==
    \/ \E c \in Clients, u \in Users, i \in ItemIds, d \in ReorderBodies :
          reorder_item_load(c, u, i, d)
    \/ \E c \in Clients : reorder_item_validate(c)
    \/ \E c \in Clients : reorder_item_commit(c)

SpecReorder == InitReorder /\ [][NextReorder]_vars

\* ------------------------------------------------------------------------
\* delete_list and restore_list with a failure part of the way through:
\* soft_delete() and restore() mark the list row and then one item row
\* after the other in the session; commit() writes the marked rows in one
\* transaction; an exception before commit() has returned ends the request,
\* and the session is removed with the request, which rolls it back
\* ------------------------------------------------------------------------
CascadeOps == {"delete_list", "restore_list"}

\* the decorator and the query of the partition the handler works on
cascade_load(c, actor, list_id, op) ==
    LET auth == list_owner_or_admin_required(actor, list_id)
        found == IF op = "delete_list" THEN ListActive(list_id) ELSE ListDeleted(list_id)
        out == IF auth # "OK" THEN auth
               ELSE IF ~found THEN "NotFound"
               ELSE "OK"
    IN  /\ sess[c].pc = "idle"
        /\ sess' = [sess EXCEPT ![c] =
               [IdleTxn EXCEPT !.pc = IF out = "OK" THEN "loaded" ELSE "done",
                               !.op = op, !.actor = actor, !.list_id = list_id,
                               !.outcome = IF out = "OK" THEN "none" ELSE out]]
        /\ UNCHANGED <<lists, items, nextGuid, now, resp, users, revoked, admin_created>>

\* self.deleted_at = ...: the list row is marked in the session
cascade_mark_list(c) ==
    /\ sess[c].pc = "loaded"
    /\ sess' = [sess EXCEPT ![c] = [@ EXCEPT !.pc = "dirty"]]
    /\ UNCHANGED <<lists, items, nextGuid, now, resp, users, revoked, admin_created>>

\* one turn of "for item in self.items": the next item row is marked
cascade_mark_item(c, i) ==
    /\ sess[c].pc = "dirty"
    /\ i \in ItemsOf(sess[c].list_id) \ sess[c].seen
    /\ sess' = [sess EXCEPT ![c] = [@ EXCEPT !.seen = @ \cup {i}]]
    /\ UNCHANGED <<lists, items, nextGuid, now, resp, users, revoked, admin_created>>

\* the rows as the session holds them: the marked ones with their new
\* deleted_at
cascade_lists(c) ==
    IF sess[c].pc = "dirty"
    THEN [lists EXCEPT ![sess[c].list_id] =
             IF sess[c].op = "delete_list" THEN list_soft_delete(@) ELSE list_restore(@)]
    ELSE lists

cascade_items(c) ==
    [i \in ItemIds |->
        IF i \in sess[c].seen
        THEN IF sess[c].op = "delete_list" THEN item_soft_delete(items[i])
             ELSE item_restore(items[i])
        ELSE items[i]]

\* db.session.commit() after the loop has ended
cascade_commit(c) ==
    /\ sess[c].pc = "dirty"
    /\ ItemsOf(sess[c].list_id) \subseteq sess[c].seen
    /\ lists' = cascade_lists(c)
    /\ items' = cascade_items(c)
    /\ sess' = [sess EXCEPT ![c] = [@ EXCEPT !.pc = "done", !.outcome = "OK"]]
    /\ UNCHANGED <<nextGuid, now, resp, users, revoked, admin_created>>

\* a failure that leaves what the session had flushed in the database
rollback_lists_keep_flushed(c) == cascade_lists(c)

\* the tables after the session has been rolled back
rollback_lists(c) == lists

rollback_items(c) == items

\* an exception in the loop or in commit(): 500, and the session is rolled
\* back
cascade_fail(c) ==
    /\ sess[c].pc \in {"loaded", "dirty"}
    /\ lists' = rollback_lists(c)
    /\ items' = rollback_items(c)
    /\ sess' = [sess EXCEPT ![c] = [@ EXCEPT !.pc = "done", !.outcome = "InternalError"]]
    /\ UNCHANGED <<nextGuid, now, resp, users, revoked, admin_created>>

\* the next request of the client
cascade_done(c) ==
    /\ sess[c].pc = "done"
    /\ sess' = [sess EXCEPT ![c] = IdleTxn]
    /\ UNCHANGED <<lists, items, nextGuid, now, resp, users, revoked, admin_created>>

\* when an item or the list went to the trash before
AbortTimes == {NULL, 1}

\* alice's list, in the trash or not, with its items, each in the trash or
\* not; the clock has moved on since
InitAbort ==
    /\ \E t \in AbortTimes :
          lists = [l \in ListIds |->
                      IF l = 1
                      THEN [new_list("alice", "milk", FALSE, 1) EXCEPT !.deleted_at = t]
                      ELSE NoList]
    /\ \E t \in [ItemIds -> AbortTimes] :
          items = [i \in ItemIds |->
                      [exists |-> TRUE, shopping_list_id |-> 1, name |-> "tea",
                       quantity |-> "1", is_checked |-> FALSE, order_index |-> i,
                       version |-> InitialVersion, deleted_at |-> t[i]]]
    /\ nextGuid = 2
    /\ now = 2
    /\ resp = NoResp
    /\ sess = [c \in Clients |-> IdleTxn]
    /\ InitAccounts

NextAbort ==
    \/ \E c \in Clients, u \in Users, l \in SpecListIds, op \in CascadeOps :
          cascade_load(c, u, l, op)
    \/ \E c \in Clients : cascade_mark_list(c)
    \/ \E c \in Clients, i \in ItemIds : cascade_mark_item(c, i)
    \/ \E c \in Clients : cascade_commit(c)
    \/ \E c \in Clients : cascade_fail(c)
    \/ \E c \in Clients : cascade_done(c)

SpecAbort == InitAbort /\ [][NextAbort]_vars

\* ------------------------------------------------------------------------
\* A list is moved to the trash and brought back by the same client, which
\* keeps what the first request has read
\* ------------------------------------------------------------------------
\* DELETE /lists/<list_id>, the whole handler; seen is the set of rows that
\* the query of item_count matches, the active items of the list
delete_list_txn(c, actor, list_id) ==
    LET auth == list_owner_or_admin_required(actor, list_id)
        out == IF auth # "OK" THEN auth
               ELSE IF ~ListActive(list_id) THEN "NotFound"
               ELSE "OK"
    IN  /\ sess[c].pc = "idle"
        /\ sess' = [sess EXCEPT ![c] =
               [IdleTxn EXCEPT !.pc = IF out = "OK" THEN "deleted" ELSE "done",
                               !.op = "delete_list", !.actor = actor, !.list_id = list_id,
                               !.seen = IF out = "OK"
                                        THEN {i \in ItemsOf(list_id) : ItemActive(i)}
                                        ELSE {},
                               !.outcome = out]]
        /\ IF out = "OK"
           THEN /\ lists' = [lists EXCEPT ![list_id] = list_soft_delete(@)]
                /\ items' = list_soft_delete_items(list_id)
           ELSE UNCHANGED <<lists, items>>
        /\ UNCHANGED <<nextGuid, now, resp, users, revoked, admin_created>>

\* POST /trash/lists/<list_id>/restore of the list the client has deleted,
\* the whole handler
restore_list_txn(c) ==
    LET list_id == sess[c].list_id
        auth == list_owner_or_admin_required(sess[c].actor, list_id)
        out == IF auth # "OK" THEN auth
               ELSE IF ~ListDeleted(list_id) THEN "NotFound"
               ELSE "OK"
    IN  /\ sess[c].pc = "deleted"
        /\ sess' = [sess EXCEPT ![c] =
               [@ EXCEPT !.pc = "done", !.op = "restore_list", !.outcome = out]]
        /\ IF out = "OK"
           THEN /\ lists' = [lists EXCEPT ![list_id] = list_restore(@)]
                /\ items' = list_restore_items(list_id)
           ELSE UNCHANGED <<lists, items>>
        /\ UNCHANGED <<nextGuid, now, resp, users, revoked, admin_created>>

NextRoundTrip ==
    \/ \E c \in Clients, u \in Users, l \in SpecListIds : delete_list_txn(c, u, l)
    \/ \E c \in Clients : restore_list_txn(c)
    \/ \E c \in Clients : cascade_done(c)
    \/ TickOn

SpecRoundTrip == InitAbort /\ [][NextRoundTrip]_vars

\* ------------------------------------------------------------------------
\* create_default_admin, the before_request hook, in requests handled at
\* the same time by the threads of one process
\* ------------------------------------------------------------------------
IdleBoot == [pc |-> "idle", found |-> FALSE, outcome |-> "none"]

\* User.query.filter_by(username='admin').first() finds a row
admin_exists == \E u \in UserIds : users[u].exists /\ users[u].username = "admin"

\* the id the INSERT gives the new row
NextUserId ==
    IF \A u \in UserIds : ~users[u].exists THEN 1
    ELSE SetMax({u \in UserIds : users[u].exists}) + 1

\* "if not hasattr(app, '_admin_created')" and the query
create_default_admin_query(c) ==
    /\ sess[c].pc = "idle"
    /\ sess' = [sess EXCEPT ![c] =
           IF admin_created
           THEN [IdleBoot EXCEPT !.pc = "done", !.outcome = "OK"]
           ELSE [IdleBoot EXCEPT !.pc = "queried", !.found = admin_exists]]
    /\ UNCHANGED <<lists, items, nextGuid, now, resp, users, revoked, admin_created>>

\* "if not admin": db.session.add(admin) and commit(), which the UNIQUE
\* index on username refuses when the row is there by now (IntegrityError,
\* answered 409 by handle_integrity_error in place of the response of the
\* endpoint); then app._admin_created = True
create_default_admin_commit(c) ==
    /\ sess[c].pc = "queried"
    /\ IF sess[c].found
       THEN /\ admin_created' = TRUE
            /\ sess' = [sess EXCEPT ![c] = [@ EXCEPT !.pc = "done", !.outcome = "OK"]]
            /\ UNCHANGED users
       ELSE IF admin_exists
       THEN /\ sess' = [sess EXCEPT ![c] =
                   [@ EXCEPT !.pc = "done", !.outcome = "AlreadyExists"]]
            /\ UNCHANGED <<users, admin_created>>
       ELSE /\ NextUserId \in UserIds
            /\ users' = [users EXCEPT ![NextUserId] =
                   [exists |-> TRUE, username |-> "admin", is_admin |-> TRUE]]
            /\ admin_created' = TRUE
            /\ sess' = [sess EXCEPT ![c] = [@ EXCEPT !.pc = "done", !.outcome = "OK"]]
    /\ UNCHANGED <<lists, items, nextGuid, now, resp, revoked>>

\* the request is answered and the thread takes the next one
create_default_admin_done(c) ==
    /\ sess[c].pc = "done"
    /\ sess' = [sess EXCEPT ![c] = IdleBoot]
    /\ UNCHANGED <<lists, items, nextGuid, now, resp, users, revoked, admin_created>>

\* the process is started again: the attribute is gone, the database stays
restart ==
    /\ \A c \in Clients : sess[c].pc = "idle"
    /\ admin_created
    /\ admin_created' = FALSE
    /\ UNCHANGED <<lists, items, nextGuid, now, resp, sess, users, revoked>>

\* a new database, or one in which 'admin' is there, as an admin or not,
\* alone or with alice and bob; the process has just started
InitBoot ==
    /\ lists = [l \in ListIds |-> NoList]
    /\ items = [i \in ItemIds |-> NoItem]
    /\ nextGuid = 1
    /\ now = 1
    /\ resp = NoResp
    /\ sess = [c \in Clients |-> IdleBoot]
    /\ \E k \in 0..MaxUsers, a \in BOOLEAN :
          users = [u \in UserIds |->
                      IF u = 1 /\ k >= 1
                      THEN [exists |-> TRUE, username |-> "admin", is_admin |-> a]
                      ELSE IF u = 2 /\ k >= 2
                      THEN [exists |-> TRUE, username |-> "alice", is_admin |-> FALSE]
                      ELSE IF u = 3 /\ k >= 3
                      THEN [exists |-> TRUE, username |-> "bob", is_admin |-> FALSE]
                      ELSE NoUser]
    /\ revoked = {}
    /\ admin_created = FALSE

NextBoot ==
    \/ \E c \in Clients : create_default_admin_query(c)
    \/ \E c \in Clients : create_default_admin_commit(c)
    \/ \E c \in Clients : create_default_admin_done(c)
    \/ restart

SpecBoot == InitBoot /\ [][NextBoot]_vars

\* ------------------------------------------------------------------------
\* Properties: version checks of update_list and update_item
\* ------------------------------------------------------------------------
\* C1 (SpecRace): when two update_list requests of authorised users on the
\* same active list both assert the stored version n and are otherwise
\* valid, one of them succeeds and the other ends with Conflict, the list
\* ends at version n + 1, and title and is_shared are those of the request
\* that succeeded.
C1_OneWinnerOneConflict ==
    \A n \in 1..MaxVersion :
        (/\ \A c \in Clients :
               /\ sess[c].pc = "done"
               /\ sess[c].list_id = 1
               /\ sess[c].actor \in {"alice", "admin"}
               /\ sess[c].data.version = Some(n)
               /\ ShoppingListUpdateSchema([sess[c].data EXCEPT !.version = Absent])
         /\ \E c \in Clients : sess[c].stored = n)
        => \E w \in Clients, l \in Clients :
              /\ w # l
              /\ sess[w].outcome = "OK"
              /\ sess[l].outcome = "Conflict"
              /\ lists[1].version = n + 1
              /\ lists[1].title = IF Has(sess[w].data, "title")
                                  THEN Val(sess[w].data, "title")
                                  ELSE sess[w].loaded.title
              /\ lists[1].is_shared = IF Has(sess[w].data, "is_shared")
                                      THEN Val(sess[w].data, "is_shared")
                                      ELSE sess[w].loaded.is_shared

\* C2: an otherwise valid update_list request of an authorised user on an
\* active list that asserts a version m >= 1 different from the stored
\* version ends with Conflict and leaves the row as it was.
C2_StaleVersionIsConflict ==
    (/\ resp.op = "update_list"
     /\ resp.before.exists /\ resp.before.deleted_at = NULL
     /\ (is_admin(resp.actor) \/ resp.before.user_id = resp.actor)
     /\ resp.wellformed
     /\ resp.version # Absent
     /\ resp.version[1] >= 1
     /\ resp.version[1] # resp.before.version)
    => (resp.outcome = "Conflict" /\ lists[resp.id] = resp.before)

C4_UpdateItemIncrementsVersion ==
    (resp.op = "update_item" /\ resp.outcome = "OK")
    => items[resp.id].version = resp.ibefore.version + 1

\* C5: an otherwise valid update_item request of a user with access to the
\* list, on an active item, that asserts a version different from the
\* stored version ends with Conflict and leaves the item as it was.
C5_StaleItemVersionIsConflict ==
    (/\ resp.op = "update_item"
     /\ resp.ibefore.exists /\ resp.ibefore.deleted_at = NULL
     /\ LET l == lists[resp.ibefore.shopping_list_id]
        IN  l.user_id = resp.actor \/ is_admin(resp.actor) \/ l.is_shared
     /\ resp.wellformed
     /\ resp.version # Absent
     /\ resp.version[1] >= 1
     /\ resp.version[1] # resp.ibefore.version)
    => (resp.outcome = "Conflict" /\ items[resp.id] = resp.ibefore)

\* C6: the response to an otherwise valid update_list request that asserts
\* a version m >= 1 different from the stored version carries
\* current_version = the stored version and expected_version = m; after one
\* update of a new list, a second request asserting 1 is answered with
\* current_version = 2 and expected_version = 1.
C6_ConflictCarriesBothVersions ==
    (/\ resp.op = "update_list"
     /\ resp.before.exists /\ resp.before.deleted_at = NULL
     /\ (is_admin(resp.actor) \/ resp.before.user_id = resp.actor)
     /\ resp.wellformed
     /\ resp.version # Absent
     /\ resp.version[1] >= 1
     /\ resp.version[1] # resp.before.version)
    => /\ resp.outcome = "Conflict"
       /\ resp.current_version = resp.before.version
       /\ resp.expected_version = resp.version[1]

\* C7: an update_list or update_item request whose version is zero or
\* negative never ends with Conflict and never succeeds, the row stays as
\* it was, and the outcome is ValidationError whenever the target is active
\* and the user is allowed to update it.
C7_NonPositiveVersionIsValidationError ==
    /\ (/\ resp.op = "update_list"
        /\ resp.version # Absent
        /\ resp.version[1] <= 0)
       => /\ resp.outcome \notin {"Conflict", "OK"}
          /\ resp.id \in ListIds => lists[resp.id] = resp.before
          /\ (/\ resp.before.exists /\ resp.before.deleted_at = NULL
              /\ (is_admin(resp.actor) \/ resp.before.user_id = resp.actor))
             => resp.outcome = "ValidationError"
    /\ (/\ resp.op = "update_item"
        /\ resp.version # Absent
        /\ resp.version[1] <= 0)
       => /\ resp.outcome \notin {"Conflict", "OK"}
          /\ resp.id \in ItemIds => items[resp.id] = resp.ibefore
          /\ (/\ resp.ibefore.exists /\ resp.ibefore.deleted_at = NULL
              /\ LET l == lists[resp.ibefore.shopping_list_id]
                 IN  l.user_id = resp.actor \/ is_admin(resp.actor) \/ l.is_shared)
             => resp.outcome = "ValidationError"

\* the owner's update of an active list with version 0 is answered with
\* ValidationError
C7_Witness ==
    /\ resp.op = "update_list"
    /\ resp.version = Some(0)
    /\ resp.wellformed
    /\ resp.before.exists /\ resp.before.deleted_at = NULL
    /\ resp.actor = resp.before.user_id
    /\ resp.outcome = "ValidationError"
    /\ lists[resp.id] = resp.before

C9_VersionStartsAtOneAndNeverDecreases ==
    [][/\ \A l \in ListIds :
             /\ lists'[l].exists => (lists'[l].version \in Nat /\ lists'[l].version >= 1)
             /\ (~lists[l].exists /\ lists'[l].exists) => lists'[l].version = 1
             /\ (lists[l].exists /\ lists'[l].exists) => lists'[l].version >= lists[l].version
       /\ \A i \in ItemIds :
             /\ items'[i].exists => (items'[i].version \in Nat /\ items'[i].version >= 1)
             /\ (~items[i].exists /\ items'[i].exists) => items'[i].version = 1
             /\ (items[i].exists /\ items'[i].exists) => items'[i].version >= items[i].version
      ]_vars

\* a list that updates have taken to version 3 is restored from the trash,
\* with its item
C9_Witness ==
    /\ resp.op = "restore_list"
    /\ resp.outcome = "OK"
    /\ lists[resp.id].version = InitialVersion + 2
    /\ \E i \in ItemIds : ItemActive(i) /\ items[i].version = InitialVersion

\* ------------------------------------------------------------------------
\* Properties: trash
\* ------------------------------------------------------------------------
\* C10 (SpecItems): in every committed state, an item that is active
\* belongs to a list that is active: a trashed list has no active item.
C10_TrashedListHasNoActiveItem ==
    \A i \in ItemIds : ItemActive(i) => ListActive(items[i].shopping_list_id)

\* C11 (SpecCascade): once a delete_list request has committed, the list is
\* in the trash and so is every item of the list, whatever the requests
\* handled at the same time do, a create_item that read the list before the
\* delete committed included.
C11_CascadeAtomicUnderCreateItem ==
    \A c \in Clients :
        (sess[c].op = "delete_list" /\ sess[c].pc = "done" /\ sess[c].outcome = "OK")
        => /\ ListDeleted(sess[c].list_id)
           /\ \A i \in ItemsOf(sess[c].list_id) : ItemDeleted(i)

\* C12 (SpecItems): a step that trashes a list keeps its set of item rows,
\* so does every step taken while the list is in the trash, and the step
\* that brings the list back from the trash leaves the list and every one
\* of its items with deleted_at = NULL and the set of item rows as it was:
\* soft delete followed by restore loses no item and adds none.
C12_RestoreAfterSoftDelete ==
    [][\A l \in ListIds :
          /\ (ListActive(l) /\ ListDeleted(l)') => ItemsOf(l)' = ItemsOf(l)
          /\ (ListDeleted(l) /\ ListDeleted(l)') => ItemsOf(l)' = ItemsOf(l)
          /\ (ListDeleted(l) /\ ListActive(l)')
             => /\ ItemsOf(l)' = ItemsOf(l)
                /\ \A i \in ItemsOf(l) : ItemActive(i)'
      ]_vars

\* a list with MaxItems items is back from the trash, all items active
C12_Witness ==
    /\ resp.op = "restore_list"
    /\ resp.outcome = "OK"
    /\ resp.before.deleted_at # NULL
    /\ ListActive(resp.id)
    /\ Cardinality(ItemsOf(resp.id)) = MaxItems
    /\ \A i \in ItemsOf(resp.id) : ItemActive(i)

\* C13 (SpecTrash): a restore_list request for a list that is active never
\* succeeds, is answered with NotFound when it comes from the owner or an
\* admin, and changes no list and no item; a restore_item request for an
\* item that is active is answered with NotFound and changes nothing.
C13_RestoreOnlyFromTrash ==
    [][/\ (resp'.op = "restore_list" /\ ListActive(resp'.id))
          => /\ resp'.outcome \in {"NotFound", "Forbidden"}
             /\ (is_admin(resp'.actor) \/ lists[resp'.id].user_id = resp'.actor)
                => resp'.outcome = "NotFound"
             /\ lists' = lists
             /\ items' = items
       /\ (resp'.op = "restore_item" /\ resp'.id \in ItemIds /\ ItemActive(resp'.id))
          => /\ resp'.outcome = "NotFound"
             /\ lists' = lists
             /\ items' = items
      ]_vars

\* the owner asks to restore an active list that has an item, which was
\* trashed on its own: NotFound, and the item stays in the trash
C13_Witness ==
    /\ resp.op = "restore_list"
    /\ resp.outcome = "NotFound"
    /\ resp.actor = resp.before.user_id
    /\ ListActive(resp.id)
    /\ \E i \in ItemsOf(resp.id) : ItemDeleted(i)

\* C14 (SpecTrash): a request that gets, updates, soft-deletes or shares a
\* list, or clears its checked items, while the list is in the trash never
\* succeeds and answers the owner (and an admin) with NotFound, on
\* /api/v1 and on /api alike; creating an item succeeds on an active list
\* only and answers the owner with NotFound when every list is in the
\* trash; a request that gets, updates, deletes, toggles or reorders an
\* item that is in the trash answers NotFound.  None of these requests
\* changes a list or an item.
C14_TrashedInvisibleToActiveOps ==
    [][/\ (/\ resp'.op \in {"get_list", "update_list", "delete_list",
                            "toggle_share_list", "clear_checked_items",
                            "api_get_list", "api_update_list", "api_delete_list"}
           /\ ListDeleted(resp'.id))
          => /\ resp'.outcome \in {"NotFound", "Forbidden"}
             /\ (is_admin(resp'.actor) \/ lists[resp'.id].user_id = resp'.actor)
                => resp'.outcome = "NotFound"
             /\ lists' = lists
             /\ items' = items
       /\ (resp'.op \in {"create_item", "api_create_item"} /\ resp'.outcome = "OK")
          => ListActive(items'[resp'.id].shopping_list_id)
       /\ (/\ resp'.op \in {"create_item", "api_create_item"}
           /\ \E l \in ListIds : lists[l].exists
           /\ \A l \in ListIds : lists[l].exists =>
                  (ListDeleted(l) /\ lists[l].user_id = resp'.actor))
          => (resp'.outcome = "NotFound" /\ lists' = lists /\ items' = items)
       /\ (/\ resp'.op \in {"get_item", "update_item", "delete_item",
                            "toggle_item", "reorder_item", "api_delete_item"}
           /\ resp'.id \in ItemIds
           /\ ItemDeleted(resp'.id))
          => /\ resp'.outcome = "NotFound"
             /\ lists' = lists
             /\ items' = items
      ]_vars

\* C15 (SpecTrash): every entry point takes its target from one partition:
\* a request that reads, updates, shares or soft-deletes a list succeeds on
\* an active list only, and a request that restores a list or removes it
\* for good (permanent_delete_list, admin_delete_list, DELETE /api/lists)
\* succeeds on a list in the trash only.
C15_EveryEntryPointPicksOnePartition ==
    /\ (/\ resp.op \in {"get_list", "update_list", "delete_list",
                         "toggle_share_list", "clear_checked_items",
                         "api_get_list", "api_update_list"}
        /\ resp.outcome = "OK")
       => (resp.before.exists /\ resp.before.deleted_at = NULL)
    /\ (/\ resp.op \in {"restore_list", "permanent_delete_list", "admin_delete_list",
                         "api_delete_list"}
        /\ resp.outcome = "OK")
       => (resp.before.exists /\ resp.before.deleted_at # NULL)

\* ------------------------------------------------------------------------
\* Properties: sharing
\* ------------------------------------------------------------------------
\* C16 (SpecTrash): a step that takes is_shared of a list from true to
\* false (a share toggle or an update of the list) leaves the list with a
\* GUID different from the one it had, after the step no list carries the
\* old GUID and the public lookup by it answers NotFound; and a GUID that
\* has been handed out and that no list carries is not resolved by the
\* public lookup after any later step.
C16_UnshareRotatesGuid ==
    [][/\ \A l \in ListIds, old \in GuidInputs :
             (/\ lists[l].exists /\ lists[l].is_shared /\ lists[l].guid = old
              /\ lists'[l].exists /\ ~lists'[l].is_shared)
             => /\ lists'[l].guid # old
                /\ ~guid_in_use(old)'
                /\ shared_lookup(old)' = "NotFound"
       /\ \A g \in GuidInputs :
             (g < nextGuid /\ ~guid_in_use(g)) => shared_lookup(g)' = "NotFound"
      ]_vars

\* C17 (SpecTrashFair): once a request has switched the sharing of a list off,
\* the GUID the list carried when that request arrived is never resolved by
\* a public lookup again, whatever follows (sharing again, toggles, updates,
\* soft delete, restore, deletion and creation of lists); and a GUID that
\* has been handed out and that no list carries is never carried by a list
\* again.
C17_RetiredGuidStaysInvalid ==
    /\ \A g \in GuidInputs :
          []((/\ resp.op \in {"toggle_share_list", "update_list", "api_update_list"}
              /\ resp.outcome = "OK"
              /\ resp.before.is_shared
              /\ resp.before.guid = g
              /\ ~lists[resp.id].is_shared)
             => [](shared_lookup(g) = "NotFound" /\ api_shared_lookup(g) = "NotFound"))
    /\ [][\A g \in GuidInputs :
             (g < nextGuid /\ ~guid_in_use(g)) => ~guid_in_use(g)'
         ]_vars

\* C18 (SpecTrash): a public lookup by GUID (GET /api/v1/shared/<guid> or
\* GET /api/shared/<guid>) answers OK exactly when some list that is active
\* and shared carries that GUID, and NotFound otherwise (a private list, a
\* shared list in the trash, a GUID no list carries); it changes no list,
\* no item and hands out no GUID.
C18_SharedLookupIffActiveAndShared ==
    [][resp'.op \in {"get_shared_list", "api_get_shared_list"}
       => /\ resp'.outcome \in {"OK", "NotFound"}
          /\ resp'.outcome = "OK" <=>
                 \E l \in ListIds :
                    /\ lists[l].exists
                    /\ lists[l].guid = resp'.id
                    /\ lists[l].deleted_at = NULL
                    /\ lists[l].is_shared
          /\ lists' = lists
          /\ items' = items
          /\ nextGuid' = nextGuid
      ]_vars

\* C19 (SpecTrash): a toggle_share_list request that takes is_shared of a
\* list from false to true leaves the GUID of the list as it was, and the
\* public lookup by that GUID answers OK afterwards.
C19_ShareKeepsGuid ==
    [][\A old \in GuidInputs :
          (/\ resp'.op = "toggle_share_list"
           /\ resp'.outcome = "OK"
           /\ ~lists[resp'.id].is_shared
           /\ lists[resp'.id].guid = old
           /\ lists'[resp'.id].is_shared)
          => /\ lists'[resp'.id].guid = old
             /\ shared_lookup(old)' = "OK"
      ]_vars

\* the owner has switched sharing on with toggle_share_list
C19_Witness ==
    /\ resp.op = "toggle_share_list"
    /\ resp.outcome = "OK"
    /\ ~resp.before.is_shared
    /\ lists[resp.id].is_shared
    /\ lists[resp.id].guid = resp.before.guid
    /\ shared_lookup(resp.before.guid) = "OK"

\* ------------------------------------------------------------------------
\* Properties: permanent deletion
\* ------------------------------------------------------------------------
\* C20 (SpecTrash): a request that deletes a list for good leaves no row of
\* the list, in the trash or out of it, and no row of any of its items; a
\* restore_list or restore_item request for a row that is gone answers
\* NotFound and changes nothing; and the only step that makes a list row
\* exist is a successful creation of a list, which is active, carries a
\* GUID never handed out before and has no item, as the only step that
\* makes an item row exist is a successful creation of an item: nothing
\* brings a deleted list or one of its items back.
C20_PermanentDeleteIsTerminal ==
    [][/\ (/\ resp'.op \in {"permanent_delete_list", "admin_delete_list", "api_delete_list"}
           /\ resp'.outcome = "OK")
          => /\ lists[resp'.id].exists
             /\ ~lists'[resp'.id].exists
             /\ \A i \in ItemIds :
                   (items[i].exists /\ items[i].shopping_list_id = resp'.id)
                   => ~items'[i].exists
       /\ (resp'.op = "restore_list" /\ ~lists[resp'.id].exists)
          => (resp'.outcome = "NotFound" /\ lists' = lists /\ items' = items)
       /\ (resp'.op = "restore_item" /\ ~items[resp'.id].exists)
          => (resp'.outcome = "NotFound" /\ lists' = lists /\ items' = items)
       /\ \A l \in ListIds :
             (~lists[l].exists /\ lists'[l].exists)
             => /\ resp'.op = "create_list" /\ resp'.outcome = "OK" /\ resp'.id = l
                /\ lists'[l].deleted_at = NULL
                /\ lists'[l].guid = nextGuid
                /\ nextGuid' = nextGuid + 1
                /\ \A i \in ItemIds : ~(items'[i].exists /\ items'[i].shopping_list_id = l)
       /\ \A i \in ItemIds :
             (~items[i].exists /\ items'[i].exists)
             => /\ resp'.op \in {"create_item", "api_create_item"}
                /\ resp'.outcome = "OK"
                /\ resp'.id = i
      ]_vars

\* an admin has removed for good a list that was in the trash: no row of the
\* list and no row of an item is left
C20_Witness ==
    /\ resp.op = "permanent_delete_list"
    /\ resp.outcome = "OK"
    /\ resp.before.deleted_at # NULL
    /\ ~lists[resp.id].exists
    /\ \A i \in ItemIds : ~items[i].exists

\* C21 (SpecTrash): a step that removes the row of a list removes a list
\* that is in the trash: no request, from any user, removes for good a list
\* that is active.
C21_HardDeleteOnlyFromTrash ==
    [][\A l \in ListIds :
          (lists[l].exists /\ ~lists'[l].exists) => lists[l].deleted_at # NULL
      ]_vars

\* C22 (SpecTrash): a request that removes for good a list that is in the
\* trash removes the row of the list and the row of every item of the list,
\* trashed or active; after it no item row refers to the list, and every
\* other item row is as it was.
C22_PermanentDeleteCascadesToItems ==
    [][(/\ resp'.op \in {"permanent_delete_list", "admin_delete_list", "api_delete_list"}
        /\ resp'.outcome = "OK"
        /\ ListDeleted(resp'.id))
       => /\ ~lists'[resp'.id].exists
          /\ \A i \in ItemIds :
                IF items[i].exists /\ items[i].shopping_list_id = resp'.id
                THEN ~items'[i].exists
                ELSE items'[i] = items[i]
          /\ \A i \in ItemIds : ~(items'[i].exists /\ items'[i].shopping_list_id = resp'.id)
          /\ resp'.op = "permanent_delete_list"
             => resp'.count = Cardinality({i \in ItemIds :
                                  items[i].exists /\ items[i].shopping_list_id = resp'.id})
      ]_vars

\* an admin has removed for good a trashed list that had an item: no item
\* row is left
C22_Witness ==
    /\ resp.op = "permanent_delete_list"
    /\ resp.outcome = "OK"
    /\ resp.count >= 1
    /\ ~lists[resp.id].exists
    /\ \A i \in ItemIds : ~items[i].exists

\* C23 (SpecTrash): only an admin removes a list for good: a
\* permanent_delete_list request from a user who is not an admin, the owner
\* included, is answered Forbidden and changes no list and no item, and no
\* request from a user who is not an admin removes the row of a list.
C23_PermanentDeleteAdminOnly ==
    [][/\ (resp'.op = "permanent_delete_list" /\ ~is_admin(resp'.actor))
          => (resp'.outcome = "Forbidden" /\ lists' = lists /\ items' = items)
       /\ \A l \in ListIds :
             (lists[l].exists /\ ~lists'[l].exists) => is_admin(resp'.actor)
      ]_vars

\* ------------------------------------------------------------------------
\* Properties: items
\* ------------------------------------------------------------------------
\* C24 (SpecClear): a clear_checked_items request succeeds on an active list
\* only; it puts into the trash, with deleted_at the time of the request,
\* exactly the items of that list that are active and checked, answers
\* their number as deleted_count, and leaves every other item row
\* (unchecked, already in the trash, of another list) and every list row as
\* it was.
C24_ClearCheckedExactlyActiveChecked ==
    [][(resp'.op = "clear_checked_items" /\ resp'.outcome = "OK")
       => /\ lists[resp'.id].exists
          /\ lists[resp'.id].deleted_at = NULL
          /\ resp'.count =
                Cardinality({i \in ItemIds :
                    /\ items[i].exists
                    /\ items[i].shopping_list_id = resp'.id
                    /\ items[i].deleted_at = NULL
                    /\ items[i].is_checked})
          /\ \A i \in ItemIds :
                IF /\ items[i].exists
                   /\ items[i].shopping_list_id = resp'.id
                   /\ items[i].deleted_at = NULL
                   /\ items[i].is_checked
                THEN items'[i] = [items[i] EXCEPT !.deleted_at = now]
                ELSE items'[i] = items[i]
          /\ lists' = lists
      ]_vars

\* one checked item of the list has gone to the trash, and a checked item
\* of the other list is still active
C24_Witness ==
    /\ resp.op = "clear_checked_items"
    /\ resp.outcome = "OK"
    /\ resp.count = 1
    /\ \E i \in ItemIds :
          /\ items[i].exists /\ items[i].shopping_list_id = resp.id
          /\ items[i].is_checked /\ items[i].deleted_at # NULL
    /\ \E j \in ItemIds :
          /\ items[j].exists /\ items[j].shopping_list_id # resp.id
          /\ items[j].is_checked /\ items[j].deleted_at = NULL

\* C25 (SpecCreate): when a request creates an item, the new item has the
\* largest order_index of the active items of its list plus one, and so an
\* order_index larger than that of every other active item of the list,
\* also when two create_item requests for the same list are handled at the
\* same time.
C25_NewItemSortsAboveActiveSiblings ==
    [][\A i \in ItemIds :
          (~items[i].exists /\ items'[i].exists)
          => /\ \A j \in ItemIds \ {i} :
                   (/\ items'[j].exists
                    /\ items'[j].shopping_list_id = items'[i].shopping_list_id
                    /\ items'[j].deleted_at = NULL)
                   => items'[i].order_index > items'[j].order_index
             /\ \/ /\ items'[i].order_index = 1
                   /\ \A j \in ItemIds \ {i} :
                         ~(/\ items'[j].exists
                           /\ items'[j].shopping_list_id = items'[i].shopping_list_id
                           /\ items'[j].deleted_at = NULL
                           /\ items'[j].order_index > 0)
                \/ \E j \in ItemIds \ {i} :
                      /\ items'[j].exists
                      /\ items'[j].shopping_list_id = items'[i].shopping_list_id
                      /\ items'[j].deleted_at = NULL
                      /\ items'[i].order_index = items'[j].order_index + 1
      ]_vars

\* C26 (SpecReorder): when a reorder_item request commits, the item it
\* names carries the order_index of the request, whatever the other items
\* carry (duplicates are accepted) and whichever request committed before,
\* so that after two reorders of one item the value of the one that
\* committed last is stored; every other column of the item and every other
\* item are as they were.
C26_ReorderSetsOnlyTarget ==
    [][\A c \in Clients :
          (sess[c].pc = "checked" /\ sess'[c].pc = "done")
          => /\ items'[sess[c].item_id] =
                   [items[sess[c].item_id] EXCEPT
                       !.order_index = Val(sess[c].data, "order_index")]
             /\ \A j \in ItemIds \ {sess[c].item_id} : items'[j] = items[j]
      ]_vars

\* ------------------------------------------------------------------------
\* Properties: who may do what
\* ------------------------------------------------------------------------
\* C27 (SpecTrash): for a user who is neither the owner nor an admin, on a
\* list that is shared: update_list, toggle_share_list, delete_list and
\* clear_checked_items on the list (and PUT and DELETE /api/lists/<id>),
\* and reorder_item on an active item of it, are answered Forbidden and
\* change no list and no item; update_item, toggle_item and delete_item on
\* an active item of the active list succeed, and so does create_item when
\* every list a request can name is such a list.
C27_SharedCollaboratorScope ==
    [][/\ (/\ resp'.op \in {"update_list", "toggle_share_list", "delete_list",
                            "clear_checked_items", "api_update_list", "api_delete_list"}
           /\ lists[resp'.id].exists
           /\ lists[resp'.id].is_shared
           /\ lists[resp'.id].user_id # resp'.actor
           /\ ~is_admin(resp'.actor))
          => (resp'.outcome = "Forbidden" /\ lists' = lists /\ items' = items)
       /\ (/\ resp'.op = "reorder_item"
           /\ resp'.id \in ItemIds
           /\ items[resp'.id].exists
           /\ items[resp'.id].deleted_at = NULL
           /\ lists[items[resp'.id].shopping_list_id].is_shared
           /\ lists[items[resp'.id].shopping_list_id].user_id # resp'.actor
           /\ ~is_admin(resp'.actor))
          => (resp'.outcome = "Forbidden" /\ lists' = lists /\ items' = items)
       /\ (/\ resp'.op \in {"update_item", "toggle_item", "delete_item"}
           /\ resp'.id \in ItemIds
           /\ items[resp'.id].exists
           /\ items[resp'.id].deleted_at = NULL
           /\ lists[items[resp'.id].shopping_list_id].is_shared
           /\ lists[items[resp'.id].shopping_list_id].deleted_at = NULL
           /\ lists[items[resp'.id].shopping_list_id].user_id # resp'.actor
           /\ ~is_admin(resp'.actor))
          => /\ resp'.outcome = "OK"
             /\ resp'.op = "delete_item" => items'[resp'.id].deleted_at # NULL
             /\ resp'.op = "toggle_item"
                => items'[resp'.id].is_checked # items[resp'.id].is_checked
       /\ (/\ resp'.op = "create_item"
           /\ ~is_admin(resp'.actor)
           /\ \A l \in SpecListIds :
                 /\ lists[l].exists
                 /\ lists[l].deleted_at = NULL
                 /\ lists[l].is_shared
                 /\ lists[l].user_id # resp'.actor)
          => /\ resp'.outcome = "OK"
             /\ items'[resp'.id].exists
             /\ ~items[resp'.id].exists
      ]_vars

\* bob has asked to reorder an active item of alice's shared list: Forbidden
C27_Witness ==
    /\ resp.op = "reorder_item"
    /\ resp.actor = "bob"
    /\ resp.outcome = "Forbidden"
    /\ items[resp.id].exists
    /\ items[resp.id].deleted_at = NULL
    /\ lists[items[resp.id].shopping_list_id].is_shared
    /\ lists[items[resp.id].shopping_list_id].deleted_at = NULL
    /\ lists[items[resp.id].shopping_list_id].user_id = "alice"

--------------------------------------------------------------------------
\* Properties: what a soft delete of a list leaves alone

\* C29 (SpecTrash): a delete_list that succeeds leaves the version of the
\* list, and the version of every item of the list, as it was.
C29_SoftDeleteKeepsVersions ==
    [][(resp'.op = "delete_list" /\ resp'.outcome = "OK")
       => /\ lists'[resp'.id].version = lists[resp'.id].version
          /\ \A i \in ItemsOf(resp'.id) : items'[i].version = items[i].version
      ]_vars

\* a list that had been updated (version 2) has been soft-deleted with an
\* item in it, and both carry the version they had
C29_Witness ==
    /\ resp.op = "delete_list"
    /\ resp.outcome = "OK"
    /\ resp.before.version = InitialVersion + 1
    /\ lists[resp.id].version = InitialVersion + 1
    /\ lists[resp.id].deleted_at # NULL
    /\ \E i \in ItemsOf(resp.id) :
          items[i].deleted_at # NULL /\ items[i].version = InitialVersion

\* C30 (SpecTrash): a delete_list that succeeds gives every item of the
\* list that was active, checked or not, the deleted_at of the request and
\* changes nothing else of it, and leaves every item of the list that was
\* in the trash already as it was, with the deleted_at it had.
C30_SoftDeleteCascadeSkipsTrashedItems ==
    [][(resp'.op = "delete_list" /\ resp'.outcome = "OK")
       => \A i \in ItemsOf(resp'.id) :
            items'[i] = IF items[i].deleted_at = NULL
                        THEN [items[i] EXCEPT !.deleted_at = now]
                        ELSE items[i]
      ]_vars

--------------------------------------------------------------------------
\* Properties: accounts

\* C31 (SpecUsers): a delete_user that succeeds removes the row of the
\* user, every list of that user, in the trash or not, and every item of
\* those lists; it leaves every list of another user and every item of such
\* a list as it was; after it no list names the user as its owner.
C31_DeleteUserCascades ==
    [][(resp'.op = "delete_user" /\ resp'.outcome = "OK")
       => \E name \in Users :
            /\ users[resp'.id].username = name
            /\ ~users'[resp'.id].exists
            /\ \A l \in ListIds :
                 lists'[l] = IF lists[l].exists /\ lists[l].user_id = name
                             THEN NoList ELSE lists[l]
            /\ \A i \in ItemIds :
                 items'[i] = IF /\ items[i].exists
                                /\ lists[items[i].shopping_list_id].user_id = name
                             THEN NoItem ELSE items[i]
            /\ \A l \in ListIds : ~(lists'[l].exists /\ lists'[l].user_id = name)
      ]_vars

\* a user who had a list has been deleted; the list of the other user, one
\* of its items in the trash, is still there
C31_Witness ==
    /\ resp.op = "delete_user"
    /\ resp.outcome = "OK"
    /\ resp.count = 1
    /\ ~users[resp.id].exists
    /\ \E l \in ListIds :
         /\ lists[l].exists
         /\ \E i \in ItemsOf(l) : ItemDeleted(i)

--------------------------------------------------------------------------
\* Properties: a cascade that fails

\* C32 (SpecAbort): a delete_list or restore_list that ends with an
\* exception after it has marked the list, or the list and some of its
\* items, leaves every list row and every item row as stored; and every
\* step that does change a stored row is the commit of a whole cascade,
\* after which the list and all of its items are in the trash
\* (delete_list) or all out of it (restore_list).
C32_FailedCascadePersistsNothing ==
    [][/\ \A c \in Clients :
            (sess'[c].outcome = "InternalError" /\ sess[c].outcome # "InternalError")
            => (lists' = lists /\ items' = items)
       /\ (lists' # lists \/ items' # items)
          => \E c \in Clients :
               /\ sess[c].pc = "dirty"
               /\ sess'[c].outcome = "OK"
               /\ \A i \in ItemsOf(sess[c].list_id) :
                    (items'[i].deleted_at = NULL) = (lists'[sess[c].list_id].deleted_at = NULL)
               /\ (lists'[sess[c].list_id].deleted_at = NULL) = (sess[c].op = "restore_list")
      ]_vars

\* a delete_list has failed after it had marked the list and one of the
\* two items: the list and both items are still active
C32_Witness ==
    \E c \in Clients :
        /\ sess[c].op = "delete_list"
        /\ sess[c].outcome = "InternalError"
        /\ sess[c].seen # {}
        /\ sess[c].seen # ItemsOf(sess[c].list_id)
        /\ ListActive(sess[c].list_id)
        /\ \A i \in ItemsOf(sess[c].list_id) : ItemActive(i)

--------------------------------------------------------------------------
\* Properties: the version under the other mutations

\* C33 (SpecTrash): a toggle_item or reorder_item that succeeds leaves the
\* version of the item exactly one above the version it had when the
\* request arrived, and a toggle_share_list that succeeds does the same to
\* the version of the list.
C33_OtherMutationsIncrementVersion ==
    /\ (resp.op \in {"toggle_item", "reorder_item"} /\ resp.outcome = "OK")
       => items[resp.id].version = resp.ibefore.version + 1
    /\ (resp.op = "toggle_share_list" /\ resp.outcome = "OK")
       => lists[resp.id].version = resp.before.version + 1

--------------------------------------------------------------------------
\* Properties: the two partitions

\* C34 (SpecUsers): in every reachable state every list row that exists is
\* in exactly one of active() and deleted(), and so is every item row that
\* exists.
C34_ActiveXorTrashed ==
    /\ \A l \in ListIds : lists[l].exists => (ListActive(l) # ListDeleted(l))
    /\ \A i \in ItemIds : items[i].exists => (ItemActive(i) # ItemDeleted(i))

\* one list is active and the other in the trash, and there is an item in
\* each partition
C34_Witness ==
    /\ \E l \in ListIds : ListActive(l)
    /\ \E l \in ListIds : ListDeleted(l)
    /\ \E i \in ItemIds : ItemActive(i)
    /\ \E i \in ItemIds : ItemDeleted(i)

--------------------------------------------------------------------------
\* Properties: the GUID under an edit

\* C35 (SpecEdit): an update_list or an edit_list that succeeds gives the
\* list a GUID that no list carries and that differs from the one it had
\* exactly when it stores an is_shared that differs from the stored one,
\* from true to false and from false to true; when the request leaves
\* is_shared as it is stored, because the key is absent or the value equal,
\* the GUID stays.
C35_EditRotatesGuidOnAnyChange ==
    [][(resp'.op \in {"update_list", "edit_list"} /\ resp'.outcome = "OK")
       => /\ (lists'[resp'.id].guid # lists[resp'.id].guid)
             = (lists'[resp'.id].is_shared # lists[resp'.id].is_shared)
          /\ lists'[resp'.id].guid # lists[resp'.id].guid
             => ~guid_in_use(lists'[resp'.id].guid)
      ]_vars

\* a list that was private has been shared through the form and carries a
\* new GUID
C35_Witness ==
    /\ resp.op = "edit_list"
    /\ resp.outcome = "OK"
    /\ ~resp.before.is_shared
    /\ lists[resp.id].is_shared
    /\ lists[resp.id].guid # resp.before.guid

--------------------------------------------------------------------------
\* Properties: trash and back

--------------------------------------------------------------------------
\* Properties: items of a list in the trash

\* C37 (SpecTrash): while a list is in the trash, a request of any user
\* that updates, toggles, reorders, deletes or restores one of its items
\* does not succeed and changes no list and no item, and no request creates
\* an item in it.
C37_NoItemOperationOnTrashedList ==
    [][/\ (/\ resp'.op \in {"update_item", "toggle_item", "reorder_item", "delete_item",
                            "restore_item", "api_delete_item"}
           /\ resp'.id \in ItemIds
           /\ items[resp'.id].exists
           /\ ListDeleted(items[resp'.id].shopping_list_id))
          => (resp'.outcome # "OK" /\ lists' = lists /\ items' = items)
       /\ (resp'.op \in {"create_item", "api_create_item"} /\ resp'.outcome = "OK")
          => ListActive(items'[resp'.id].shopping_list_id)
      ]_vars

--------------------------------------------------------------------------
\* Properties: revoked tokens

\* C38 (SpecAuth): a request that presents a token that is on the blacklist
\* is answered Unauthorized; a row of the blacklist whose expires_at is not
\* in the past stays on the blacklist in every step, a step of
\* cleanup_revoked_tokens included; and a token that has been revoked and
\* has not expired is on the blacklist with its own expiry.
C38_RevokedTokenStaysRejected ==
    [][/\ (/\ resp'.op \in {"get_current_user_info", "logout", "cleanup_revoked_tokens"}
           /\ is_jti_blacklisted(resp'.id))
          => resp'.outcome = "Unauthorized"
       /\ \A r \in revoked : ~(r.expires_at < now) => r \in revoked'
       /\ \A r \in revoked' : r.expires_at = TokenExp(r.jti)
       /\ (resp'.op = "logout" /\ resp'.outcome = "OK")
          => \E r \in revoked' : r.jti = resp'.id
      ]_vars

\* a cleanup has removed the row of the token that has expired, and the
\* token revoked with it, which has not expired, is still on the blacklist
C38_Witness ==
    /\ resp.op = "cleanup_revoked_tokens"
    /\ resp.outcome = "OK"
    /\ resp.count = 1
    /\ \E r \in revoked : r.expires_at > now

--------------------------------------------------------------------------
\* Properties: the default admin

\* C39 (SpecBoot): whatever requests the threads handle, and in whatever
\* order their steps fall, the table holds at most one account named
\* 'admin', no request ends with an error raised by create_default_admin,
\* and a row named 'admin' that exists is left as it is.
C39_BootstrapIdempotentUnderConcurrency ==
    [][/\ Cardinality({u \in UserIds : users'[u].exists /\ users'[u].username = "admin"}) <= 1
       /\ \A c \in Clients : sess'[c].outcome \in {"none", "OK"}
       /\ \A u \in UserIds :
            (users[u].exists /\ users[u].username = "admin") => users'[u] = users[u]
      ]_vars

--------------------------------------------------------------------------
\* Properties: the cleanup of the trash

\* C40 (SpecCleanup): every list row and every item row that a run of
\* cleanup-trash removes was in the trash with a deleted_at older than the
\* cutoff: no active list or item is removed, and no row of the trash
\* whose deleted_at is the cutoff or later.
C40_CleanupRemovesOnlyOldTrash ==
    [][resp'.op = "cleanup_trash_command"
       => /\ \A l \in ListIds :
               (lists[l].exists /\ ~lists'[l].exists)
               => (ListDeleted(l) /\ lists[l].deleted_at < now - resp'.id)
          /\ \A i \in ItemIds :
               (items[i].exists /\ ~items'[i].exists)
               => (ItemDeleted(i) /\ items[i].deleted_at < now - resp'.id)
      ]_vars

====
